---------------------------- MODULE Spec2Model ----------------------------
(***************************************************************************)
(* Model of gstatsutils: the generic equality predicate equal()           *)
(* (gstats_utils/pythonutils/equality.py) and the object hasher           *)
(* hash_object() (gstatsutils/pythonutils/hashing.py and the unfinished   *)
(* gstats_utils/pythonutils/hashing.py).                                  *)
(*                                                                         *)
(* A Python object is a record [k, id, v]: k is its kind (its concrete    *)
(* type), v its contents and id tells apart two objects with the same     *)
(* contents.  `x is y' is equality of the whole record.                   *)
(***************************************************************************)
EXTENDS Integers, Sequences, FiniteSets, TLC

(***************************************************************************)
(* Bounds of the input universe.                                           *)
(***************************************************************************)
MaxInt == 1
MaxLen == 2

(***************************************************************************)
(* Program constants.                                                      *)
(***************************************************************************)
_MAX_STR_LEN == 1000
_EQ_DEFAULT_STRICT_TYPES == "Default"
_EQ_DEFAULT_UNORDERED == "Default"

Obj(k, id, v) == [k |-> k, id |-> id, v |-> v]

(***************************************************************************)
(* Floating point numbers restricted to signed integral values: the sign   *)
(* bit is kept apart so that 0.0 and -0.0 are different floats.            *)
(***************************************************************************)
Flt(neg, n) == [neg |-> neg, n |-> n]
PZero == Flt(FALSE, 0)
IntToFlt(i) == IF i < 0 THEN Flt(TRUE, 0 - i) ELSE Flt(FALSE, i)
Cx(re, im) == [re |-> re, im |-> im]

(* Text and byte strings are runs of one character: ch repeated n times *)
Run(ch, n) == [ch |-> ch, n |-> n]

PyNone == Obj("singleton", 0, "None")
PyEllipsis == Obj("singleton", 0, "Ellipsis")
PyNotImplemented == Obj("singleton", 0, "NotImplemented")
PyBool(p) == Obj("bool", 0, p)
PyInt(i) == Obj("int", 0, i)
PyFloat(neg, n) == Obj("float", 0, Flt(neg, n))
PyComplex(re, im) == Obj("complex", 0, Cx(re, im))
NpNumber(dtype, c) == Obj("npnumber", 0, [dtype |-> dtype, c |-> c])
NpInt64(i) == NpNumber("int64", Cx(IntToFlt(i), PZero))
PyStr(ch, n) == Obj("str", 0, Run(ch, n))
PyBytes(ch, n) == Obj("bytes", 0, Run(ch, n))
PyByteArray(ch, n) == Obj("bytearray", 0, Run(ch, n))
PyMemoryView(ch, n) == Obj("memoryview", 0, Run(ch, n))
PyRange(start, stop, step) == Obj("range", 0, <<start, stop, step>>)
PyType(name) == Obj("type", 0, name)
PyEnum(cls, name) == Obj("enum", 0, <<cls, name>>)
PyList(id, elems) == Obj("list", id, elems)
PyTuple(id, elems) == Obj("tuple", id, elems)
PySet(elems) == Obj("set", 0, elems)
PyFrozenSet(elems) == Obj("frozenset", 0, elems)
PyDict(id, items) == Obj("dict", id, items)
DictKeys(id, keys) == Obj("dict_keys", id, keys)
DictValues(id, vals) == Obj("dict_values", id, vals)
TempHashableEQ(id, int_val, str_val, list_val, list_val2) == Obj("other", id, [cls |-> "_TempHashableEQ", int_val |-> int_val, str_val |-> str_val, list_val |-> list_val, list_val2 |-> list_val2])
NdArray(id, dtype, shape, data) == Obj("ndarray", id, [dtype |-> dtype, shape |-> shape, data |-> data])

(***************************************************************************)
(* Types: type(x), isinstance(x, T) with bool a subclass of int, and the   *)
(* members of pytypes.SingletonObjects.                                    *)
(***************************************************************************)
SingletonObjects == {PyNone, PyEllipsis, PyNotImplemented}

IsSingleton(x) == \E s \in SingletonObjects : x.k = s.k /\ x.v = s.v

(* An identity test that never succeeds *)
IsNever(x, y) == FALSE

(* x is y *)
Is(x, y) == x.k = y.k /\ x.id = y.id /\ x.v = y.v

TypeOf(x) ==
    CASE x.k = "singleton" -> x.v
      [] x.k = "enum" -> x.v[1]
      [] x.k = "npnumber" -> x.v.dtype
      [] x.k = "other" -> x.v.cls
      [] OTHER -> x.k

IsInstance(x, types) ==
    \/ x.k \in types
    \/ x.k = "bool" /\ "int" \in types

_DUNDER_EQ_TYPES == {"int", "float", "npnumber", "complex", "bytes", "bytearray", "memoryview",
                     "str", "range", "type", "set", "frozenset", "dict_keys"}

NumericTypes == {"int", "float", "complex", "npnumber"}
ByteLikeTypes == {"bytes", "bytearray", "memoryview"}
SetLikeTypes == {"set", "frozenset", "dict_keys"}

(***************************************************************************)
(* complex(obj): every number as a pair of floats.                         *)
(***************************************************************************)
ToComplex(x) ==
    CASE x.k = "bool" -> Cx(IntToFlt(IF x.v THEN 1 ELSE 0), PZero)
      [] x.k = "int" -> Cx(IntToFlt(x.v), PZero)
      [] x.k = "float" -> Cx(x.v, PZero)
      [] x.k = "complex" -> x.v
      [] x.k = "npnumber" -> x.v.c

(* IEEE comparison: the two zeros compare equal *)
FltEq(f, g) == (f.n = 0 /\ g.n = 0) \/ f = g
CxEq(c, d) == FltEq(c.re, d.re) /\ FltEq(c.im, d.im)

(* str(float) without the trailing ".0", as complex.__repr__ prints a part *)
FltStr(f) == (IF f.neg THEN "-" ELSE "") \o ToString(f.n)

(* str(complex): "1j" when the real part is +0.0, "(re+imj)" otherwise *)
ComplexStr(c) ==
    IF c.re = PZero
    THEN FltStr(c.im) \o "j"
    ELSE "(" \o FltStr(c.re) \o (IF c.im.neg THEN "" ELSE "+") \o FltStr(c.im) \o "j)"

(***************************************************************************)
(* range objects compare as the sequences they produce.                    *)
(***************************************************************************)
RangeLen(r) ==
    IF r[3] > 0 /\ r[1] < r[2] THEN ((r[2] - r[1] - 1) \div r[3]) + 1
    ELSE IF r[3] < 0 /\ r[1] > r[2] THEN ((r[1] - r[2] - 1) \div (0 - r[3])) + 1
    ELSE 0

RangeEq(r, s) ==
    /\ RangeLen(r) = RangeLen(s)
    /\ \/ RangeLen(r) = 0
       \/ r[1] = s[1] /\ (RangeLen(r) = 1 \/ r[3] = s[3])

(* The elements of a set-like object (set, frozenset, dict key view) *)
SeqToSet(s) == {s[i] : i \in 1..Len(s)}
Members(x) == IF x.k = "dict_keys" THEN SeqToSet(x.v) ELSE x.v

(***************************************************************************)
(* The native `a == b' of the built-in types.                              *)
(***************************************************************************)
RECURSIVE PyEq(_, _)
PyEq(a, b) ==
    CASE IsInstance(a, NumericTypes) /\ IsInstance(b, NumericTypes) -> CxEq(ToComplex(a), ToComplex(b))
      [] a.k \in ByteLikeTypes /\ b.k \in ByteLikeTypes -> a.v.n = b.v.n /\ (a.v.n = 0 \/ a.v.ch = b.v.ch)
      [] a.k = "str" /\ b.k = "str" -> a.v.n = b.v.n /\ (a.v.n = 0 \/ a.v.ch = b.v.ch)
      [] a.k = "range" /\ b.k = "range" -> RangeEq(a.v, b.v)
      [] a.k = "type" /\ b.k = "type" -> a.v = b.v
      [] a.k \in SetLikeTypes /\ b.k \in SetLikeTypes ->
            /\ \A x \in Members(a) : \E y \in Members(b) : PyEq(x, y)
            /\ \A y \in Members(b) : \E x \in Members(a) : PyEq(x, y)
      [] a.k = "singleton" /\ b.k = "singleton" -> a.v = b.v
      [] a.k = "enum" /\ b.k = "enum" -> a.v = b.v
      [] OTHER -> FALSE

(***************************************************************************)
(* len(repr(x)).  Numbers, singletons, types, enum members, ranges and     *)
(* memoryviews of the universe print in a few characters; text and byte    *)
(* strings print their n characters between quotes; a container prints its *)
(* elements.                                                               *)
(***************************************************************************)
RECURSIVE ReprLen(_)
RECURSIVE ReprLenSeq(_)
ReprLenSeq(s) == IF s = <<>> THEN 0 ELSE ReprLen(Head(s)) + 2 + ReprLenSeq(Tail(s))

ReprLen(x) ==
    CASE x.k = "str" -> x.v.n + 2
      [] x.k = "bytes" -> x.v.n + 3
      [] x.k = "bytearray" -> x.v.n + 14
      [] x.k = "memoryview" -> 27
      [] x.k \in {"list", "tuple", "generator"} -> 2 + ReprLenSeq(x.v)
      [] x.k \in {"dict_keys", "dict_values"} -> 13 + ReprLenSeq(x.v)
      [] x.k \in {"set", "frozenset"} -> 11 + ReprLenSeq(CHOOSE s \in [1..Cardinality(x.v) -> x.v] : SeqToSet(s) = x.v)
      [] x.k = "dict" -> 2 + ReprLenSeq([i \in 1..Len(x.v) |-> x.v[i][1]]) + ReprLenSeq([i \in 1..Len(x.v) |-> x.v[i][2]])
      [] x.k = "ndarray" -> 22 + ReprLenSeq(x.v.data)
      [] x.k = "other" -> 24
      [] OTHER -> 16

(* _limit_str(a): `a[:limit] + "..."' is evaluated when repr(a) has 1000 characters or
   more, and raises TypeError unless a is a str *)
LimitStrRaises(x) == ~(ReprLen(x) < _MAX_STR_LEN) /\ x.k # "str"

(* raise EqualityError(a, b, message): __init__ formats both operands with _limit_str *)
RaiseEqualityError(a, b) == IF LimitStrRaises(a) \/ LimitStrRaises(b) THEN "TypeError" ELSE "EqualityError"

(* raise EqualityCheckingError("... %s ... %s" % (_limit_str(a), _limit_str(b))) *)
RaiseCheckingError(a, b) == IF LimitStrRaises(a) \/ LimitStrRaises(b) THEN "TypeError" ELSE "EqualityCheckingError"

(* What a call gives: a returned value or the class of the exception it raises *)
Returned == {"True", "False", "None"}
Raised == {"EqualityError", "EqualityCheckingError", "TypeError", "ValueError", "NotImplementedError"}

(* A type check that lets every pair through *)
_eq_enforce_nothing(types, a, b, raise_err) == "True"

_eq_check(checked, a, b, raise_err) ==
    IF ~checked
    THEN IF raise_err THEN RaiseEqualityError(a, b) ELSE "False"
    ELSE "True"

_eq_enforce_types(types, a, b, raise_err) ==
    IF ~IsInstance(a, types) \/ ~IsInstance(b, types)
    THEN _eq_check(FALSE, a, b, raise_err)
    ELSE "True"

(***************************************************************************)
(* Conversions.  Each gives [ok, val]: ok is FALSE when the conversion     *)
(* raises.  A converted operand is a new object: ids 8 (for a) and 9 (for  *)
(* b) are kept for them.                                                   *)
(***************************************************************************)
Conv(ok, val) == [ok |-> ok, val |-> val]
Failed == Conv(FALSE, PyNone)

Prod(shape) == IF shape = <<>> THEN 1 ELSE IF Len(shape) = 1 THEN shape[1] ELSE IF Len(shape) = 2 THEN shape[1] * shape[2] ELSE shape[1] * shape[2] * shape[3]

(* list(x): iterating a 0-d array raises, an n-d array gives its sub-arrays *)
ToList(x, id) ==
    CASE x.k \in {"list", "tuple", "dict_keys", "dict_values", "generator"} -> Conv(TRUE, PyList(id, x.v))
      [] x.k = "ndarray" ->
            IF x.v.shape = <<>> THEN Failed
            ELSE IF Len(x.v.shape) = 1 THEN Conv(TRUE, PyList(id, x.v.data))
            ELSE LET m == Prod(Tail(x.v.shape))
                 IN  Conv(TRUE, PyList(id, [i \in 1..x.v.shape[1] |->
                        NdArray(id, x.v.dtype, Tail(x.v.shape), SubSeq(x.v.data, (i - 1) * m + 1, i * m))]))
      [] OTHER -> Failed


(* The dtype numpy gives an array built from numbers *)
PromotedDtype(elems) ==
    IF \E i \in 1..Len(elems) : elems[i].k = "complex" THEN "complex128"
    ELSE IF \E i \in 1..Len(elems) : elems[i].k = "float" THEN "float64"
    ELSE IF \A i \in 1..Len(elems) : elems[i].k = "bool" THEN "bool"
    ELSE "int64"

(* np.array(x) of a list or tuple: numbers give a 1-d numeric array, equally long
   sequences of numbers a 2-d one, ragged nestings raise, anything else an object
   array; a generator gives a 0-d object array holding it *)
NpArray(x, id) ==
    IF x.k = "generator" THEN Conv(TRUE, NdArray(id, "object", <<>>, <<x>>))
    ELSE IF x.v = <<>> THEN Conv(TRUE, NdArray(id, "float64", <<0>>, <<>>))
    ELSE IF \A i \in 1..Len(x.v) : IsInstance(x.v[i], NumericTypes)
    THEN Conv(TRUE, NdArray(id, PromotedDtype(x.v), <<Len(x.v)>>,
                [i \in 1..Len(x.v) |-> NpNumber(PromotedDtype(x.v), ToComplex(x.v[i]))]))
    ELSE IF \A i \in 1..Len(x.v) : x.v[i].k \in {"list", "tuple"}
    THEN IF /\ \A i \in 1..Len(x.v) : Len(x.v[i].v) = Len(x.v[1].v)
            /\ \A i \in 1..Len(x.v) : \A j \in 1..Len(x.v[i].v) : IsInstance(x.v[i].v[j], NumericTypes)
         THEN LET n == Len(x.v[1].v)
                  flat == [p \in 1..(Len(x.v) * n) |-> x.v[((p - 1) \div n) + 1].v[((p - 1) % n) + 1]]
              IN  Conv(TRUE, NdArray(id, PromotedDtype(flat), <<Len(x.v), n>>,
                        [p \in 1..Len(flat) |-> NpNumber(PromotedDtype(flat), ToComplex(flat[p]))]))
         ELSE Failed
    ELSE IF \E i \in 1..Len(x.v) : x.v[i].k \in {"list", "tuple"} THEN Failed
    ELSE Conv(TRUE, NdArray(id, "object", <<Len(x.v)>>, x.v))

(* np.ndarray(x): the class constructor takes x as the SHAPE of a new float64 array
   whose cells are whatever the allocated memory holds (cell); a shape entry that is
   not an integer raises *)
IsIndex(x) == x.k \in {"int", "bool"} \/ (x.k = "npnumber" /\ x.v.dtype = "int64")
IndexOf(x) == IF x.k = "bool" THEN (IF x.v THEN 1 ELSE 0) ELSE IF x.k = "int" THEN x.v ELSE x.v.c.re.n

NewNdArray(x, id, cell) ==
    IF /\ Len(x.v) <= 3
       /\ \A i \in 1..Len(x.v) : IsIndex(x.v[i]) /\ IndexOf(x.v[i]) >= 0
    THEN LET shape == [i \in 1..Len(x.v) |-> IndexOf(x.v[i])]
         IN  Conv(TRUE, NdArray(id, "float64", shape, [p \in 1..Prod(shape) |-> NpNumber("float64", Cx(cell, PZero))]))
    ELSE Failed

(* np.testing.assert_equal(a, b) of two arrays passes when the shapes agree (or one
   is 0-d) and the cells are pairwise == *)
AssertEqualPasses(a, b) ==
    /\ a.v.shape = <<>> \/ b.v.shape = <<>> \/ a.v.shape = b.v.shape
    /\ IF a.v.shape = <<>> THEN \A j \in 1..Len(b.v.data) : PyEq(a.v.data[1], b.v.data[j])
       ELSE IF b.v.shape = <<>> THEN \A i \in 1..Len(a.v.data) : PyEq(a.v.data[i], b.v.data[1])
       ELSE \A i \in 1..Len(a.v.data) : PyEq(a.v.data[i], b.v.data[i])

(***************************************************************************)
(* Selectors.  A selector argument is None, a non-string, or a string      *)
(* given by its first character and the rest.                              *)
(***************************************************************************)
SelNone == [t |-> "None", head |-> "", rest |-> ""]
SelNotStr == [t |-> "int", head |-> "", rest |-> ""]
SelStr(head, rest) == [t |-> "str", head |-> head, rest |-> rest]
Alpha == {"l", "x"}

(* eval('a' + selector), selector normalised: ".attr" reads an attribute, "[0]" the
   first item, "_..." names an unknown variable *)
EvalSelector(x, sel) ==
    IF sel.head = "." /\ sel.rest = "list_val" /\ x.k = "other" THEN Conv(TRUE, x.v.list_val)
    ELSE IF sel.head = "." /\ sel.rest = "list_val2" /\ x.k = "other" THEN Conv(TRUE, x.v.list_val2)
    ELSE IF sel.head = "[" /\ sel.rest = "0]"
    THEN CASE x.k \in {"list", "tuple"} -> IF Len(x.v) > 0 THEN Conv(TRUE, x.v[1]) ELSE Failed
           [] x.k = "str" -> IF x.v.n > 0 THEN Conv(TRUE, PyStr(x.v.ch, 1)) ELSE Failed
           [] x.k \in ByteLikeTypes -> IF x.v.n > 0 THEN Conv(TRUE, PyInt(IF x.v.ch = "a" THEN 97 ELSE 98)) ELSE Failed
           [] x.k = "range" -> IF RangeLen(x.v) > 0 THEN Conv(TRUE, PyInt(x.v[1])) ELSE Failed
           [] x.k = "ndarray" -> IF Len(x.v.shape) = 1 /\ x.v.shape[1] > 0 THEN Conv(TRUE, x.v.data[1]) ELSE Failed
           [] x.k = "dict" -> IF \E i \in 1..Len(x.v) : PyEq(x.v[i][1], PyInt(0))
                              THEN Conv(TRUE, x.v[CHOOSE i \in 1..Len(x.v) : PyEq(x.v[i][1], PyInt(0))][2])
                              ELSE Failed
           [] OTHER -> Failed
    ELSE Failed

(***************************************************************************)
(* State.                                                                  *)
(***************************************************************************)
VARIABLES
    a, b, c,             \* the objects the caller holds
    kwargs,              \* the selector and flags the caller passes to equal()
    _CURR_EQUAL_KWARGS,  \* the module's record of the flags in effect
    uninit,              \* what freshly allocated array memory holds
    ret,                 \* what the last call of equal() gave, and its subcalls
    digest,              \* what the last calls of hash_object() gave
    hashing,             \* the package whose hash_object the dictionaries import
    A,                   \* the dictionary the caller works on (None before it is made)
    B,                   \* the operand the caller passes to A's methods
    result,              \* what the last dictionary operation gave
    threads,             \* the threads that run, each with its position and its locals
    now                  \* the clock that time.time() reads

vars == <<a, b, c, kwargs, _CURR_EQUAL_KWARGS, uninit, ret, digest, hashing, A, B, result, threads, now>>
equalvars == <<a, b, c, kwargs, _CURR_EQUAL_KWARGS, uninit, ret, digest>>
dictvars == <<hashing, A, B, result>>
threadvars == <<threads, now>>

(* _CURR_EQUAL_KWARGS is None or a dict of the two flags *)
KwNone == <<>>
Kw(st, un) == <<[strict_types |-> st, unordered |-> un]>>

BoolArg(p) == IF p THEN "True" ELSE "False"

(* What a call of equal() gives: its outcome, _CURR_EQUAL_KWARGS as it leaves it, and
   the calls of equal() it made, itself first *)
R(out, curr, log) == [out |-> out, curr |-> curr, log |-> log]

Convert(type, x, id) ==
    CASE type = "None" -> Conv(TRUE, x)
      [] type = "list" -> ToList(x, id)
      [] type = "np.ndarray" -> NewNdArray(x, id, uninit)
      [] type = "np.array" -> NpArray(x, id)

(* b[k] of a dict, by the native hash and == of the key *)
HasKey(d, k) == \E i \in 1..Len(d.v) : PyEq(d.v[i][1], k)
GetItem(d, k) == d.v[CHOOSE i \in 1..Len(d.v) : PyEq(d.v[i][1], k)][2]
Keys(d, id) == DictKeys(id, [i \in 1..Len(d.v) |-> d.v[i][1]])

RECURSIVE equal(_, _, _, _, _, _, _, _)
RECURSIVE _check_with_conversion(_, _, _, _, _, _, _, _, _)
RECURSIVE SequenceLoop(_, _, _, _, _, _, _, _)
RECURSIVE DictValuesLoop(_, _, _, _, _, _, _, _)
RECURSIVE TempHashableEQ__eq__(_, _, _, _)

(* The call r made after the call n: r's outcome, the calls of both *)
After(n, r) == R(r.out, r.curr, n.log \o r.log)

(* The outcome out reached through the call n *)
Gives(out, n) == R(out, n.curr, n.log)

(* ... and equal(self.list_val2, other.list_val2, strict_types=True) *)
TempHashableEQ_list_val2(self, other, depth, n1) ==
    IF n1.out # "True" THEN n1
    ELSE After(n1, equal(self.v.list_val2, other.v.list_val2, SelNone, "True", "Default", "Default", n1.curr, depth + 1))

(* _TempHashableEQ.__eq__ of the tests: a class whose == calls equal() again, once
   with a selector and the flags left out, once with strict_types=True *)
TempHashableEQ__eq__(self, other, curr, depth) ==
    IF other.k # "other" THEN R("False", curr, <<>>)
    ELSE IF self.v.int_val # other.v.int_val \/ self.v.str_val # other.v.str_val THEN R("False", curr, <<>>)
    ELSE TempHashableEQ_list_val2(self, other, depth,
            equal(self, other, SelStr("l", "ist_val"), "Default", "Default", "Default", curr, depth + 1))

(* except Exception: _eq_check(False, a, b, raise_err), its value dropped *)
ConversionFailed(xa, xb, raise_err) == IF raise_err THEN RaiseEqualityError(xa, xb) ELSE "None"

(* What the handlers of _check_with_conversion make of the nested call n *)
ConversionResult(xa, xb, raise_err, n) ==
    IF n.out \in Returned \/ n.out = "EqualityCheckingError" THEN n
    ELSE Gives(ConversionFailed(xa, xb, raise_err), n)

(* try: return equal(ca_type(a), cb_type(b), ...), the conversions giving ca and cb *)
Converted(xa, xb, ca, cb, unordered, raise_err, strict_types, curr, depth) ==
    IF ~ca.ok \/ ~cb.ok THEN R(ConversionFailed(xa, xb, raise_err), curr, <<>>)
    ELSE ConversionResult(xa, xb, raise_err,
            equal(ca.val, cb.val, SelNone, BoolArg(strict_types), BoolArg(unordered), BoolArg(raise_err), curr, depth + 1))

_check_with_conversion(xa, type_a, xb, type_b, unordered, raise_err, strict_types, curr, depth) ==
    Converted(xa, xb, Convert(type_a, xa, 8), Convert(type_b, xb, 9), unordered, raise_err, strict_types, curr, depth)

(* One turn of a loop over sub-values: n is what equal() gave for this pair, rest the
   turns after it *)
LoopTurn(xa, xb, n, rest) ==
    CASE n.out = "True" -> After(n, rest)
      [] n.out \in {"False", "None"} -> Gives("False", n)
      [] n.out = "EqualityError" -> Gives(RaiseEqualityError(xa, xb), n)
      [] OTHER -> Gives("EqualityCheckingError", n)

SequenceTurn(xa, xb, i, strict_types, unordered, raise_err, depth, n) ==
    LoopTurn(xa, xb, n,
        IF n.out = "True" THEN SequenceLoop(xa, xb, i + 1, strict_types, unordered, raise_err, n.curr, depth) ELSE n)

(* for i, (x, y) in enumerate(zip(a, b)) *)
SequenceLoop(xa, xb, i, strict_types, unordered, raise_err, curr, depth) ==
    IF i > Len(xa.v) THEN R("True", curr, <<>>)
    ELSE SequenceTurn(xa, xb, i, strict_types, unordered, raise_err, depth,
            equal(xa.v[i], xb.v[i], SelNone, BoolArg(strict_types), BoolArg(unordered), BoolArg(raise_err), curr, depth + 1))

DictValuesTurn(xa, xb, i, strict_types, unordered, raise_err, depth, n) ==
    LoopTurn(xa, xb, n,
        IF n.out = "True" THEN DictValuesLoop(xa, xb, i + 1, strict_types, unordered, raise_err, n.curr, depth) ELSE n)

(* for k in a: equal(a[k], b[k]) *)
DictValuesLoop(xa, xb, i, strict_types, unordered, raise_err, curr, depth) ==
    IF i > Len(xa.v) THEN R("True", curr, <<>>)
    ELSE IF ~HasKey(xb, xa.v[i][1]) THEN R("EqualityCheckingError", curr, <<>>)
    ELSE DictValuesTurn(xa, xb, i, strict_types, unordered, raise_err, depth,
            equal(xa.v[i][2], GetItem(xb, xa.v[i][1]), SelNone, BoolArg(strict_types), BoolArg(unordered), BoolArg(raise_err), curr, depth + 1))

(* The dict branch after its type check: n is what equal(a.keys(), b.keys()) gave *)
DictKeysTurn(xa, xb, strict_types, unordered, raise_err, depth, n) ==
    CASE n.out = "True" -> After(n, DictValuesLoop(xa, xb, 1, strict_types, unordered, raise_err, n.curr, depth))
      [] n.out \in {"False", "None"} -> Gives("False", n)
      [] n.out = "EqualityError" -> Gives(RaiseEqualityError(xa, xb), n)
      [] OTHER -> Gives(RaiseCheckingError(Keys(xa, 8), Keys(xb, 9)), n)

(* return _eq_check(a == b, a, b, raise_err), a == b being the __eq__ call e *)
NativeEq(xa, xb, raise_err, e) ==
    Gives(IF e.out \in Raised THEN e.out ELSE _eq_check(e.out = "True", xa, xb, raise_err), e)

(* _eq_enforce_types(types, a, b, raise_err); return _eq_check(a == b, a, b, raise_err) *)
TypedEq(types, xa, xb, raise_err, curr) ==
    IF _eq_enforce_types(types, xa, xb, raise_err) # "True"
    THEN R(_eq_enforce_types(types, xa, xb, raise_err), curr, <<>>)
    ELSE R(_eq_check(PyEq(xa, xb), xa, xb, raise_err), curr, <<>>)

(* The checks of equal() inside its try block (equality.py 158-300), the flags resolved *)
MainCheck(xa, xb, strict_types, unordered, raise_err, curr, depth) ==
    IF Is(xa, xb) THEN R("True", curr, <<>>)
    ELSE IF strict_types /\ TypeOf(xa) # TypeOf(xb) THEN R(_eq_check(FALSE, xa, xb, raise_err), curr, <<>>)
    ELSE IF IsSingleton(xa) \/ xa.k = "enum" THEN R(_eq_check(FALSE, xa, xb, raise_err), curr, <<>>)
    ELSE IF xa.k = "bool" \/ xb.k = "bool" THEN TypedEq({"bool"}, xa, xb, raise_err, curr)
    ELSE IF IsInstance(xa, _DUNDER_EQ_TYPES) THEN TypedEq(_DUNDER_EQ_TYPES, xa, xb, raise_err, curr)
    ELSE IF xa.k \in {"list", "tuple"}
    THEN IF xb.k = "ndarray"
         THEN IF xb.v.dtype = "object"
              THEN _check_with_conversion(xa, "None", xb, "list", unordered, raise_err, strict_types, curr, depth)
              ELSE _check_with_conversion(xa, "np.ndarray", xb, "None", unordered, raise_err, FALSE, curr, depth)
         ELSE IF xb.k \in {"generator", "dict_keys"}
         THEN _check_with_conversion(xa, "None", xb, "list", unordered, raise_err, FALSE, curr, depth)
         ELSE IF xb.k \notin {"list", "tuple"} THEN R(_eq_check(FALSE, xa, xb, raise_err), curr, <<>>)
         ELSE IF Len(xa.v) # Len(xb.v) THEN R(_eq_check(FALSE, xa, xb, raise_err), curr, <<>>)
         ELSE IF ~unordered THEN SequenceLoop(xa, xb, 1, strict_types, unordered, raise_err, curr, depth)
         ELSE R("NotImplementedError", curr, <<>>)
    ELSE IF xa.k = "ndarray"
    THEN IF xb.k # "ndarray"
         THEN IF xa.v.dtype = "object"
              THEN _check_with_conversion(xa, "list", xb, "None", unordered, raise_err, strict_types, curr, depth)
              ELSE IF xb.k \in {"list", "tuple", "generator"}
              THEN _check_with_conversion(xa, "None", xb, "np.array", unordered, raise_err, strict_types, curr, depth)
              ELSE R(_eq_check(FALSE, xa, xb, raise_err), curr, <<>>)
         ELSE IF xa.v.dtype = "object"
         THEN _check_with_conversion(xa, "list", xb, "list", unordered, raise_err, strict_types, curr, depth)
         ELSE IF ~unordered
         THEN R(IF AssertEqualPasses(xa, xb) THEN "True" ELSE _eq_check(FALSE, xa, xb, raise_err), curr, <<>>)
         ELSE _check_with_conversion(xa, "list", xb, "list", unordered, raise_err, strict_types, curr, depth)
    ELSE IF xa.k = "dict"
    THEN IF _eq_enforce_types({"dict"}, xa, xb, raise_err) # "True"
         THEN R(_eq_enforce_types({"dict"}, xa, xb, raise_err), curr, <<>>)
         ELSE DictKeysTurn(xa, xb, strict_types, unordered, raise_err, depth,
                equal(Keys(xa, 8), Keys(xb, 9), SelNone, BoolArg(strict_types), BoolArg(unordered), BoolArg(raise_err), curr, depth + 1))
    ELSE IF xa.k = "dict_values"
    THEN _check_with_conversion(xa, "list", xb, "None", TRUE, raise_err, strict_types, curr, depth)
    ELSE IF xa.k = "other" THEN NativeEq(xa, xb, raise_err, TempHashableEQ__eq__(xa, xb, curr, depth))
    ELSE R(_eq_check(FALSE, xa, xb, raise_err), curr, <<>>)

(* except EqualityError: raise; except Exception: raise EqualityCheckingError(...) *)
Handlers(xa, xb, m) ==
    Gives(IF m.out \in Raised \ {"EqualityError"} THEN RaiseCheckingError(xa, xb) ELSE m.out, m)

(* The try block of equal() with its handlers (equality.py 156-305) *)
Checked(xa, xb, strict_types, unordered, raise_err, curr, depth) ==
    Handlers(xa, xb, MainCheck(xa, xb, strict_types, unordered, raise_err, curr, depth))

(* What the handlers around the nested call n of a selector make of it *)
SelectedResult(xa, xb, n) ==
    Gives(CASE n.out = "EqualityError" -> RaiseEqualityError(xa, xb)
            [] n.out \in Raised \ {"EqualityError"} -> RaiseCheckingError(xa, xb)
            [] OTHER -> n.out,
          n)

(* equal(_a, _b, selector=None, ...), eval() having given ea and eb *)
Evaluated(xa, xb, ea, eb, strict_types, unordered, raise_err, curr, depth) ==
    IF ~ea.ok \/ ~eb.ok THEN R("EqualityCheckingError", curr, <<>>)
    ELSE SelectedResult(xa, xb,
            equal(ea.val, eb.val, SelNone, BoolArg(strict_types), BoolArg(unordered), BoolArg(raise_err), curr, depth + 1))

(* The use of a selector (equality.py 138-153) *)
Selected(xa, xb, sel, strict_types, unordered, raise_err, curr, depth) ==
    Evaluated(xa, xb, EvalSelector(xa, sel), EvalSelector(xb, sel), strict_types, unordered, raise_err, curr, depth)

(* The selector as equal() normalises it (equality.py 128-136): a leading letter gets
   a "." before it *)
Normalised(selector) ==
    IF selector.head \in Alpha THEN SelStr(".", selector.head \o selector.rest) ELSE selector

(* The body of equal() under its context manager (equality.py 124-305) *)
EqualBody(xa, xb, selector, strict_types, unordered, raise_err, curr, depth) ==
    IF selector.t = "None" \/ (selector.t = "str" /\ selector.head = "")
    THEN Checked(xa, xb, strict_types, unordered, raise_err, curr, depth)
    ELSE IF selector.t # "str" THEN R("TypeError", curr, <<>>)
    ELSE IF selector.head \notin Alpha \cup {".", "_", "["} THEN R("ValueError", curr, <<>>)
    ELSE Selected(xa, xb, Normalised(selector), strict_types, unordered, raise_err, curr, depth)

(* An __exit__ that leaves the record as the body left it *)
LeavesRecord(control_kwargs, prev, curr) == curr

(* _ReturnCurrEqualKwargs.__exit__ *)
ReturnCurrEqualKwargs(control_kwargs, prev, curr) ==
    IF control_kwargs THEN KwNone ELSE Kw(prev.strict_types, prev.unordered)

(* The flags in effect while a call runs: those passed, else those of the caller *)
Resolve(given, default, inherited) == IF given # default THEN given = "True" ELSE inherited

(* The call's entry in the log *)
Call(depth, strict_types, unordered, raise_err, st, un) ==
    [depth |-> depth, given |-> [strict_types |-> strict_types, unordered |-> unordered, raise_err |-> raise_err],
     strict_types |-> st, unordered |-> un, raise_err |-> raise_err = "True"]

(* The context manager around the body: its __exit__ restores the flags *)
WithKwargs(control_kwargs, prev, call, body) ==
    R(body.out, ReturnCurrEqualKwargs(control_kwargs, prev, body.curr), <<call>> \o body.log)

Entered(xa, xb, selector, strict_types, unordered, raise_err, control_kwargs, prev, st, un, depth) ==
    WithKwargs(control_kwargs, prev, Call(depth, strict_types, unordered, raise_err, st, un),
        EqualBody(xa, xb, selector, st, un, raise_err = "True", Kw(st, un), depth))

(* The call r with, in its entry of the log, _CURR_EQUAL_KWARGS as the call found it
   and as it leaves it *)
Logged(before, r) == R(r.out, r.curr, <<Head(r.log) @@ [before |-> before, after |-> r.curr]>> \o Tail(r.log))

(* equal(a, b, selector, strict_types, unordered, raise_err): a flag is "True", "False"
   or "Default" when the caller leaves it out *)
equal(xa, xb, selector, strict_types, unordered, raise_err, curr, depth) ==
    Logged(curr,
        Entered(xa, xb, selector, strict_types, unordered, raise_err, curr = KwNone,
            (IF curr = KwNone THEN Kw(FALSE, FALSE) ELSE curr)[1],
            Resolve(strict_types, _EQ_DEFAULT_STRICT_TYPES, (IF curr = KwNone THEN Kw(FALSE, FALSE) ELSE curr)[1].strict_types),
            Resolve(unordered, _EQ_DEFAULT_UNORDERED, (IF curr = KwNone THEN Kw(FALSE, FALSE) ELSE curr)[1].unordered),
            depth))

(***************************************************************************)
(* hash_object() of gstatsutils/pythonutils/hashing.py.  A digest is taken  *)
(* as the pair of the method and the bytes fed to the hasher: two digests   *)
(* are equal exactly when they come from the same method and input.         *)
(***************************************************************************)
algorithms_available == {"sha256", "md5", "sha1"}

TypeName(x) ==
    CASE x.k = "singleton" -> (IF x.v = "None" THEN "NoneType" ELSE IF x.v = "Ellipsis" THEN "ellipsis" ELSE "NotImplementedType")
      [] OTHER -> TypeOf(x)

(* A ret_type argument: a string, a type (callable) or something else *)
RetStr(name) == [t |-> "str", name |-> name]
RetType(name) == [t |-> "type", name |-> name]
RetOther == [t |-> "other", name |-> ""]
Lower(name) == IF name = "STR" THEN "str" ELSE IF name = "Int" THEN "int" ELSE name

(* The bytes hash_object feeds the hasher for obj *)
HasherInput(obj, strict_types) ==
    (IF strict_types THEN "('" \o TypeName(obj) \o "') " ELSE "")
    \o (IF IsSingleton(obj) THEN "('" \o TypeName(obj) \o "')"
        ELSE IF IsInstance(obj, NumericTypes) THEN "(Numeric) " \o ComplexStr(ToComplex(obj))
        ELSE IF obj.k = "enum" THEN "(Enum) '" \o obj.v[1] \o "' " \o obj.v[2]
        ELSE "")

Hashed(out, enc, method, data) == [out |-> out, enc |-> enc, method |-> method, data |-> data]
HashRaised(exc) == Hashed(exc, "", "", "")

hash_object(obj, method, ret_type, strict_types) ==
    LET rt == IF ret_type.t = "str" THEN RetStr(Lower(ret_type.name)) ELSE ret_type
        data == HasherInput(obj, strict_types)
    IN  IF ret_type.t = "other" THEN HashRaised("TypeError")
        ELSE IF method.t # "str" THEN HashRaised("TypeError")
        ELSE IF method.name \notin algorithms_available THEN HashRaised("ValueError")
        ELSE IF rt = RetType("str") \/ (rt.t = "str" /\ rt.name \in {"str", "string"}) THEN Hashed("returned", "hex", method.name, data)
        ELSE IF rt = RetType("int") \/ (rt.t = "str" /\ rt.name \in {"int", "integer"}) THEN Hashed("returned", "int", method.name, data)
        ELSE IF rt = RetType("bytes") \/ (rt.t = "str" /\ rt.name \in {"byte", "bytes"}) THEN Hashed("returned", "bytes", method.name, data)
        ELSE IF rt.t # "str" THEN Hashed("returned", rt.name, method.name, data)
        ELSE HashRaised("ValueError")

(***************************************************************************)
(* hash_object() of gstats_utils/pythonutils/hashing.py: it passes on to   *)
(* _hash_helper a `hasher' that no statement of the function binds.        *)
(***************************************************************************)
_hash_helper(obj, hasher, ordered, method, hashed_objects, currently_hashing) ==
    IF IsInstance(obj, {"int"})
    THEN IF IndexOf(obj) \in 0..255 THEN Hashed("returned", "bytes", method.name, ToString(IndexOf(obj)))
         ELSE HashRaised("OverflowError")
    ELSE Hashed("returned", "int", method.name, "1")

hasher_is_bound == FALSE

gstats_utils_hash_object(obj, ordered, method) ==
    IF ~hasher_is_bound THEN HashRaised("NameError")
    ELSE _hash_helper(obj, "hasher", ordered, method, {}, {})

(***************************************************************************)
(* Containers that contain themselves: Ref(id) stands for the enclosing    *)
(* container whose id it names.                                            *)
(***************************************************************************)
Ref(id) == Obj("ref", id, 0)

RECURSIVE Reaches(_, _)
Reaches(x, id) ==
    \/ x.k = "ref" /\ x.id = id
    \/ x.k \in {"list", "tuple"} /\ \E i \in 1..Len(x.v) : Reaches(x.v[i], id)

ContainsItself(x) == x.k \in {"list", "tuple"} /\ Reaches(x, x.id)

(***************************************************************************)
(* BetterDict (betterbuiltin/better_dict.py) and HashableDict (hashing.py  *)
(* of gstats_utils).  A dictionary object holds its entries in insertion   *)
(* order, each the digest of a key, the key object kept for it and the     *)
(* value; ready is FALSE while __init__ has not yet made the attributes.   *)
(* One entry stands for the items of a digest in the two maps of the       *)
(* object (_keys and _values of BetterDict; _key_hashes_to_keys and the    *)
(* dict itself of HashableDict): its key is NoItem where the map of the    *)
(* keys has no item for the digest, its value is NoItem where the map of   *)
(* the values has none.  A method gives [out, val, self]: "returned" or    *)
(* the exception raised, the value returned, and the object as it leaves   *)
(* it.                                                                     *)
(***************************************************************************)
DictObject(cls, ready, entries) == Obj(cls, 0, [ready |-> ready, entries |-> entries])
Entry(key_hash, key, value) == [key_hash |-> key_hash, key |-> key, value |-> value]
DictClasses == {"BetterDict", "HashableDict"}

Done(val, self) == [out |-> "returned", val |-> val, self |-> self]
Raise(exc, self) == [out |-> exc, val |-> PyNone, self |-> self]

_RAISE_ERR_ON_NO_KEY == Obj("_RaiseErrorOnNoKey", 0, 0)
_OBJECT_MISSING == Obj("object", 0, 0)

(* The mark of a map that has no item for a digest *)
NoItem == Obj("no item", 0, 0)

(* self._hash_key(key): the attributes are read before hash_object is called.
   HashableDict passes ordered=, which hash_object of gstatsutils does not take *)
_hash_key(self, key) ==
    IF ~self.v.ready THEN HashRaised("AttributeError")
    ELSE IF hashing = "gstats_utils" THEN gstats_utils_hash_object(key, FALSE, [t |-> "str", name |-> "sha256"])
    ELSE IF self.k = "HashableDict" THEN HashRaised("TypeError")
    ELSE hash_object(key, [t |-> "str", name |-> "sha256"], RetType("str"), FALSE)

_contains_key_hash(self, key_hash) == \E i \in 1..Len(self.v.entries) : self.v.entries[i].key_hash = key_hash

Slot(self, key_hash) == CHOOSE i \in 1..Len(self.v.entries) : self.v.entries[i].key_hash = key_hash

(* self._keys[key_hash] = copy.deepcopy(key): a native dict keeps the place of a
   key that is set again; the key object kept is the deep copy of the last one given *)
SetKeysItem(self, key_hash, key) ==
    [self EXCEPT !.v.entries =
        IF _contains_key_hash(self, key_hash)
        THEN [self.v.entries EXCEPT ![Slot(self, key_hash)].key = key]
        ELSE Append(self.v.entries, Entry(key_hash, key, NoItem))]

(* self._values[key_hash] = newvalue *)
SetValuesItem(self, key_hash, newvalue) ==
    [self EXCEPT !.v.entries =
        IF _contains_key_hash(self, key_hash)
        THEN [self.v.entries EXCEPT ![Slot(self, key_hash)].value = newvalue]
        ELSE Append(self.v.entries, Entry(key_hash, NoItem, newvalue))]

(* The first of the two statements of _set_key_with_hash alone *)
SetKeysOnly(self, key, newvalue, key_hash) == SetKeysItem(self, key_hash, key)

_set_key_with_hash(self, key, newvalue, key_hash) ==
    SetValuesItem(SetKeysItem(self, key_hash, key), key_hash, newvalue)

(* BetterDict reads self._values; HashableDict reads self._key_hashes_to_keys, the
   map of the key objects *)
_get_value_with_hash(self, key, key_hash, default) ==
    IF _contains_key_hash(self, key_hash)
    THEN Done(IF self.k = "BetterDict" THEN self.v.entries[Slot(self, key_hash)].value
              ELSE self.v.entries[Slot(self, key_hash)].key, self)
    ELSE IF default = _RAISE_ERR_ON_NO_KEY THEN Raise("KeyError", self)
    ELSE Done(default, self)

_del_known_key_hashes(self, key_hashes) ==
    [self EXCEPT !.v.entries = SelectSeq(self.v.entries, LAMBDA e : e.key_hash \notin key_hashes)]

_del_with_hash(self, key, key_hash, raise_err) ==
    IF _contains_key_hash(self, key_hash) THEN Done(PyNone, _del_known_key_hashes(self, {key_hash}))
    ELSE IF raise_err THEN Raise("KeyError", self)
    ELSE Done(PyNone, self)

(* The step of a method that follows self._hash_key(key): the exception of the
   hashing leaves the method, else the method goes on *)
Hashing(h, self, next) == IF h.out # "returned" THEN Raise(h.out, self) ELSE next

__setitem__(self, key, newvalue) ==
    Hashing(_hash_key(self, key), self, Done(PyNone, _set_key_with_hash(self, key, newvalue, _hash_key(self, key))))

__getitem__(self, key) ==
    Hashing(_hash_key(self, key), self, _get_value_with_hash(self, key, _hash_key(self, key), _RAISE_ERR_ON_NO_KEY))

(* self._del_with_hash(self._hash_key(key)): the call gives one argument where
   _del_with_hash(key, key_hash) takes two *)
__delitem__(self, key) ==
    Hashing(_hash_key(self, key), self, Raise("TypeError", self))

__contains__(self, key) ==
    Hashing(_hash_key(self, key), self, Done(PyBool(_contains_key_hash(self, _hash_key(self, key))), self))

(* len(self._keys) *)
__len__(self) == Cardinality({i \in 1..Len(self.v.entries) : self.v.entries[i].key # NoItem})

keys(self) == [i \in 1..Len(self.v.entries) |-> self.v.entries[i].key]

IsDict(x) == x.k \in {"dict"} \cup DictClasses

(* len(t): [ok, val], ok FALSE where t has no len() *)
PyLen(t) ==
    CASE t.k \in {"list", "tuple"} -> Conv(TRUE, Len(t.v))
      [] t.k = "dict" -> Conv(TRUE, Len(t.v))
      [] t.k \in DictClasses -> Conv(TRUE, __len__(t))
      [] t.k \in {"str", "bytes"} -> Conv(TRUE, t.v.n)
      [] OTHER -> Conv(FALSE, 0)

(* t[i] for an int i *)
Subscript(t, i) ==
    CASE t.k \in {"list", "tuple"} -> IF i < Len(t.v) THEN Done(t.v[i + 1], t) ELSE Raise("IndexError", t)
      [] t.k = "str" -> IF i < t.v.n THEN Done(PyStr(t.v.ch, 1), t) ELSE Raise("IndexError", t)
      [] t.k = "dict" -> IF HasKey(t, PyInt(i)) THEN Done(GetItem(t, PyInt(i)), t) ELSE Raise("KeyError", t)
      [] t.k \in DictClasses -> __getitem__(t, PyInt(i))
      [] OTHER -> Raise("TypeError", t)

(* d.items() of a dict or of a dictionary object, else iter(x): [ok, val] *)
Items(x) ==
    CASE x.k = "dict" -> Conv(TRUE, [i \in 1..Len(x.v) |-> PyTuple(0, x.v[i])])
      [] x.k \in DictClasses ->
            Conv(TRUE, [i \in 1..Len(x.v.entries) |-> PyTuple(0, <<x.v.entries[i].key, x.v.entries[i].value>>)])
      [] x.k \in {"list", "tuple"} -> Conv(TRUE, x.v)
      [] x.k = "str" -> Conv(TRUE, [i \in 1..x.v.n |-> PyStr(x.v.ch, 1)])
      [] OTHER -> Conv(FALSE, <<>>)

(* self[t[0]] = t[1]: t[1] is evaluated first, then t[0], then the item is set *)
Assign(self, k, v) ==
    IF v.out # "returned" THEN Raise(v.out, self)
    ELSE IF k.out # "returned" THEN Raise(k.out, self)
    ELSE __setitem__(self, k.val, v.val)

InitTurn(self, t) ==
    IF ~PyLen(t).ok THEN Raise("TypeError", self)
    ELSE IF PyLen(t).val # 2 THEN Raise("ValueError", self)
    ELSE Assign(self, Subscript(t, 0), Subscript(t, 1))

RECURSIVE InitLoop(_, _)
InitNext(r, rest) == IF r.out # "returned" THEN r ELSE InitLoop(r.self, rest)
InitLoop(self, ts) == IF ts = <<>> THEN Done(PyNone, self) ELSE InitNext(InitTurn(self, Head(ts)), Tail(ts))

(* The attributes are made after the loop, and made empty *)
InitEnd(cls, r) == IF r.out # "returned" THEN r ELSE Done(PyNone, DictObject(cls, TRUE, <<>>))

__init__(cls, dict_input) ==
    IF dict_input = PyNone THEN Done(PyNone, DictObject(cls, TRUE, <<>>))
    ELSE IF ~Items(dict_input).ok THEN Raise("TypeError", PyNone)
    ELSE InitEnd(cls, InitLoop(DictObject(cls, FALSE, <<>>), Items(dict_input).val))

(***************************************************************************)
(* Conflict methods: a str, a constant of the class (ConflictMethodsEnum   *)
(* of BetterDict, the ints CONFLICT_* of HashableDict), a callable, or     *)
(* something else.                                                         *)
(***************************************************************************)
CmStr(s) == [t |-> "str", name |-> s]
CmConst(name) == [t |-> "const", name |-> name]
CmCallable(f) == [t |-> "callable", name |-> f]
CmOther == [t |-> "other", name |-> ""]

ConflictMethodsEnum == <<"RAISE_ERROR", "KEEP_LEFT", "KEEP_RIGHT", "KEEP_ALL", "KEEP_SAME">>

(* re.fullmatch of the pattern of the constant on the cleaned string, for the
   strings a caller passes here *)
FullMatch(cls, const, s) ==
    s \in CASE const = "RAISE_ERROR" -> {"raise"}
            [] const = "KEEP_LEFT" -> {"keep_left"}
            [] const = "KEEP_RIGHT" -> {"keep_right"}
            [] const = "KEEP_ALL" -> IF cls = "BetterDict" THEN {"keep_both", "all"} ELSE {"keep_both"}
            [] const = "KEEP_SAME" -> {"same"}

(* The first half of _get_*_conflict_method: [ok, val], val the constant or the
   callable, or the exception where ok is FALSE *)
CleanConflictMethod(cls, conflict_method) ==
    CASE conflict_method.t = "str" ->
            IF \E i \in 1..5 : FullMatch(cls, ConflictMethodsEnum[i], conflict_method.name)
            THEN Conv(TRUE, CmConst(ConflictMethodsEnum[
                    CHOOSE i \in 1..5 : /\ FullMatch(cls, ConflictMethodsEnum[i], conflict_method.name)
                                        /\ \A j \in 1..(i - 1) : ~FullMatch(cls, ConflictMethodsEnum[j], conflict_method.name)]))
            ELSE Conv(FALSE, "ValueError")
      [] conflict_method.t = "const" -> Conv(TRUE, conflict_method)
      [] conflict_method.t = "callable" /\ cls = "BetterDict" -> Conv(TRUE, conflict_method)
      [] OTHER -> Conv(FALSE, "TypeError")

(* _CONFLICT_METHOD_DICT of better_dict.py is empty (BetterDict has no attribute
   whose name starts with CONFLICT_), so the message of the ValueError cannot be
   built and the KeyError of the lookup leaves the function *)
_get_better_dict_conflict_method(conflict_method, dont_allow) ==
    IF ~CleanConflictMethod("BetterDict", conflict_method).ok THEN CleanConflictMethod("BetterDict", conflict_method)
    ELSE IF CleanConflictMethod("BetterDict", conflict_method) = CleanConflictMethod("BetterDict", CmStr(dont_allow))
    THEN Conv(FALSE, "KeyError")
    ELSE CleanConflictMethod("BetterDict", conflict_method)

_get_hashable_dict_conflict_method(conflict_method, dont_allow) ==
    IF ~CleanConflictMethod("HashableDict", conflict_method).ok THEN CleanConflictMethod("HashableDict", conflict_method)
    ELSE IF CleanConflictMethod("HashableDict", conflict_method) = CleanConflictMethod("HashableDict", CmStr(dont_allow))
    THEN Conv(FALSE, "ValueError")
    ELSE CleanConflictMethod("HashableDict", conflict_method)

(* conflict_method(values) of the callables a caller passes here *)
CallConflictMethod(conflict_method, values) ==
    IF conflict_method.name = "first" THEN values.v[1] ELSE values.v[Len(values.v)]

_KeepAllTuple(values) == Obj("_KeepAllTuple", 0, values)

(* A digest used as a key object *)
DigestStr(key_hash) == Obj("str", 0, key_hash)

(* bool(equal(x, y)) with the default arguments, or the exception equal raises *)
EqualValues(x, y) == equal(x, y, SelNone, "Default", "Default", "Default", KwNone, 0).out

(***************************************************************************)
(* BetterDict.union, intersection and difference.                          *)
(***************************************************************************)
(* An object made during a method is another object than the ones the caller
   holds, which have the id 0 *)
NewObject(d) == Obj(d.k, 1, d.v)

(* The outcome r of the making of an object, with the object the method was called on *)
From(r, self) == IF r.out # "returned" THEN Raise(r.out, self) ELSE Done(NewObject(r.self), self)

(* self if inplace else self.__class__(self) *)
SelfOrNew(self, inplace) == IF inplace THEN Done(self, self) ELSE From(__init__(self.k, self), self)

(* What _ensure_better_dicts would give were the operands to arrive one by one:
   the operands that are dictionaries of a hash-keyed class, as they are *)
OperandsAsGiven(cls, dicts) == Done(SelectSeq(dicts, LAMBDA d : d.k \in {"BetterDict", "HashableDict"}), PyNone)

(* cls._ensure_better_dicts(dicts), declared with a starred dicts: the tuple of the operands
   arrives as the one element of dicts, and is not an instance of cls *)
_ensure_better_dicts(cls, dicts) ==
    IF __init__(cls, PyTuple(0, dicts)).out # "returned" THEN Raise(__init__(cls, PyTuple(0, dicts)).out, PyNone)
    ELSE Done(<<__init__(cls, PyTuple(0, dicts)).self>>, PyNone)

(* The entries of all of dicts, as the two loops of union go through them *)
RECURSIVE AllEntries(_)
AllEntries(dicts) == IF dicts = <<>> THEN <<>> ELSE Head(dicts).v.entries \o AllEntries(Tail(dicts))

KeptAll(curr_v, v) == IF curr_v.k = "_KeepAllTuple" THEN _KeepAllTuple(Append(curr_v.v, v)) ELSE _KeepAllTuple(<<curr_v, v>>)

(* One turn of the inner loop on working_dict w: curr_v is what w holds for the
   digest of the entry e, eq what equal(curr_v, v) gives *)
UnionTurn(w, e, cm, curr_v, eq) ==
    IF cm # CmConst("KEEP_RIGHT") /\ curr_v # _OBJECT_MISSING
    THEN CASE cm = CmConst("KEEP_LEFT") -> Done(PyNone, w)
           [] cm = CmConst("KEEP_ALL") -> __setitem__(w, DigestStr(e.key_hash), KeptAll(curr_v, e.value))
           [] cm = CmConst("RAISE_ERROR") ->
                IF eq \in Raised THEN Raise(eq, w) ELSE IF eq # "True" THEN Raise("KeyError", w) ELSE Done(PyNone, w)
           [] OTHER -> Done(PyNone, w)
    ELSE Done(PyNone, _set_key_with_hash(w, e.key, e.value, e.key_hash))

RECURSIVE UnionLoop(_, _, _)
UnionNext(r, es, cm) == IF r.out # "returned" THEN r ELSE UnionLoop(r.self, es, cm)
UnionLoop(w, es, cm) ==
    IF es = <<>> THEN Done(PyNone, w)
    ELSE UnionNext(UnionTurn(w, Head(es), cm, _get_value_with_hash(w, Head(es).key, Head(es).key_hash, _OBJECT_MISSING).val,
                             EqualValues(_get_value_with_hash(w, Head(es).key, Head(es).key_hash, _OBJECT_MISSING).val, Head(es).value)),
                   Tail(es), cm)

(* The last loop of union: with a callable, the _KeepAllTuple values of self (not of
   working_dict) are replaced by what the callable gives for them *)
CallOnKeptAll(self, cm) ==
    IF cm.t # "callable" THEN self
    ELSE [self EXCEPT !.v.entries =
            [i \in 1..Len(self.v.entries) |->
                IF self.v.entries[i].value.k = "_KeepAllTuple"
                THEN [self.v.entries[i] EXCEPT !.value = CallConflictMethod(cm, self.v.entries[i].value)]
                ELSE self.v.entries[i]]]

(* return working_dict: w is self itself when inplace *)
UnionEnd(self, inplace, cm, r) ==
    IF r.out # "returned" THEN Raise(r.out, IF inplace THEN r.self ELSE self)
    ELSE IF inplace THEN Done(CallOnKeptAll(r.self, cm), CallOnKeptAll(r.self, cm))
    ELSE Done(r.self, CallOnKeptAll(self, cm))

UnionWorking(self, inplace, cm, ds, w) ==
    IF w.out # "returned" THEN w ELSE UnionEnd(self, inplace, cm, UnionLoop(w.val, AllEntries(ds), cm))

UnionEnsured(self, inplace, cm, ds) ==
    IF ds.out # "returned" THEN Raise(ds.out, self) ELSE UnionWorking(self, inplace, cm, ds.val, SelfOrNew(self, inplace))

UnionCleaned(self, dicts, inplace, cm) ==
    IF ~cm.ok THEN Raise(cm.val, self) ELSE UnionEnsured(self, inplace, cm.val, _ensure_better_dicts(self.k, dicts))

BetterDict_union(self, dicts, inplace, conflict_method) ==
    IF dicts = <<>> THEN SelfOrNew(self, inplace)
    ELSE UnionCleaned(self, dicts, inplace, _get_better_dict_conflict_method(conflict_method, "same"))

(* intersection reads its local conflict_method, which nothing has bound (the
   parameter is keep_value_method); no statement after that line can run *)
BetterDict_intersection(self, dicts, inplace, keep_value_method) ==
    IF dicts = <<>> THEN SelfOrNew(self, inplace)
    ELSE Raise("UnboundLocalError", self)

(* After _ensure_better_dicts, difference evaluates reversed(dicts[:-1]) + (self,)
   when flipped, and set.union on the key views of dicts else: a list iterator
   added to a tuple, and set.union given a key view, both a TypeError *)
BetterDict_difference(self, dicts, inplace, flip_operands) ==
    IF dicts = <<>> THEN SelfOrNew(self, inplace)
    ELSE IF _ensure_better_dicts(self.k, dicts).out # "returned" THEN Raise(_ensure_better_dicts(self.k, dicts).out, self)
    ELSE Raise("TypeError", self)

(***************************************************************************)
(* HashableDict.union, intersection and difference.                        *)
(***************************************************************************)
(* HashableDict(__other, ordered=self.ordered): the attribute is named _ordered,
   and the read of self.ordered raises before the constructor is called *)
_create_dict_with_same_kwargs(self, other) == Raise("AttributeError", self)

(* Every HashableDict is made with ordered=False, so the flags never differ *)
_ensure_compatible_kwargs(self, other) ==
    IF other.k # "HashableDict" THEN _create_dict_with_same_kwargs(self, other) ELSE Done(other, self)

(* copy.deepcopy(self): a new object, every item of self set on it again with
   y[key] = value *)
RECURSIVE CopyLoop(_, _)
CopyNext(r, es) == IF r.out # "returned" THEN r ELSE CopyLoop(r.self, es)
CopyLoop(y, es) ==
    IF es = <<>> THEN Done(PyNone, y) ELSE CopyNext(__setitem__(y, Head(es).key, Head(es).value), Tail(es))

HashableDict_copy(self) == From(CopyLoop(DictObject(self.k, TRUE, <<>>), self.v.entries), self)

(* One turn of the loop of union: self_v is read from self, not from working_dict *)
HUnionTurn(w, e, clean_cm, self_v, eq) ==
    IF clean_cm # CmConst("KEEP_RIGHT") /\ self_v # _OBJECT_MISSING
    THEN CASE clean_cm = CmConst("KEEP_LEFT") -> Done(PyNone, w)
           [] clean_cm = CmConst("KEEP_ALL") -> Done(PyNone, _set_key_with_hash(w, e.key, PyTuple(0, <<self_v, e.value>>), e.key_hash))
           [] clean_cm = CmConst("RAISE_ERROR") ->
                IF eq \in Raised THEN Raise(eq, w) ELSE IF eq = "True" THEN Done(PyNone, w) ELSE Raise("KeyError", w)
           [] OTHER -> Raise("NotImplementedError", w)
    ELSE Done(PyNone, _set_key_with_hash(w, e.key, e.value, e.key_hash))

RECURSIVE HUnionLoop(_, _, _, _)
HUnionNext(self, r, es, clean_cm) == IF r.out # "returned" THEN r ELSE HUnionLoop(self, r.self, es, clean_cm)
HUnionLoop(self, w, es, clean_cm) ==
    IF es = <<>> THEN Done(PyNone, w)
    ELSE HUnionNext(self,
            HUnionTurn(w, Head(es), clean_cm, _get_value_with_hash(self, Head(es).key, Head(es).key_hash, _OBJECT_MISSING).val,
                       EqualValues(_get_value_with_hash(self, Head(es).key, Head(es).key_hash, _OBJECT_MISSING).val, Head(es).value)),
            Tail(es), clean_cm)

HUnionEnd(self, inplace, r) ==
    IF r.out # "returned" THEN Raise(r.out, IF inplace THEN r.self ELSE self)
    ELSE Done(r.self, IF inplace THEN r.self ELSE self)

HUnionWorking(self, other, inplace, clean_cm, w) ==
    IF w.out # "returned" THEN w ELSE HUnionEnd(self, inplace, HUnionLoop(self, w.val, other.v.entries, clean_cm))

HUnionCleaned(self, other, inplace, clean_cm) ==
    IF ~clean_cm.ok THEN Raise(clean_cm.val, self)
    ELSE HUnionWorking(self, other, inplace, clean_cm.val, IF inplace THEN Done(self, self) ELSE HashableDict_copy(self))

HUnionCompatible(self, other, inplace, conflict_method) ==
    IF other.out # "returned" THEN other
    ELSE HUnionCleaned(self, other.val, inplace, _get_hashable_dict_conflict_method(conflict_method, "same"))

HashableDict_union(self, other, inplace, conflict_method) ==
    HUnionCompatible(self, _ensure_compatible_kwargs(self, other), inplace, conflict_method)

(* intersection makes working_dict with self._create_dict_with_same_kwargs(), which
   raises: no statement after that line can run *)
HIntersectionCleaned(self, clean_cm) ==
    IF ~clean_cm.ok THEN Raise(clean_cm.val, self) ELSE _create_dict_with_same_kwargs(self, PyNone)

HashableDict_intersection(self, other, inplace, keep_value_method) ==
    IF _ensure_compatible_kwargs(self, other).out # "returned" THEN _ensure_compatible_kwargs(self, other)
    ELSE HIntersectionCleaned(self, _get_hashable_dict_conflict_method(keep_value_method, "raise"))

(* The in-place loop of difference: the digests of other leave self *)
RECURSIVE HDifferenceLoop(_, _)
HDifferenceLoop(self, es) ==
    IF es = <<>> THEN self
    ELSE HDifferenceLoop(_del_with_hash(self, Head(es).key, Head(es).key_hash, FALSE).self, Tail(es))

RECURSIVE HashableDict_difference(_, _, _, _)
HDifferenceCompatible(self, other, inplace, flip_operands) ==
    IF flip_operands THEN HashableDict_difference(other, self, inplace, FALSE)
    ELSE IF inplace THEN Done(HDifferenceLoop(self, other.v.entries), HDifferenceLoop(self, other.v.entries))
    ELSE _create_dict_with_same_kwargs(self, PyNone)

HashableDict_difference(self, other, inplace, flip_operands) ==
    IF _ensure_compatible_kwargs(self, other).out # "returned" THEN _ensure_compatible_kwargs(self, other)
    ELSE HDifferenceCompatible(self, _ensure_compatible_kwargs(self, other).val, inplace, flip_operands)

(***************************************************************************)
(* symmetric_difference and xor.                                           *)
(***************************************************************************)
KeyHashes(d) == {d.v.entries[i].key_hash : i \in 1..Len(d.v.entries)}

SetSymmetricDifference(S, T) == (S \ T) \cup (T \ S)

(* unique_key_hashes after the first loop: the digests held by an odd number of
   dicts, self not among them *)
RECURSIVE UniqueKeyHashes(_)
UniqueKeyHashes(dicts) ==
    IF dicts = <<>> THEN {} ELSE SetSymmetricDifference(KeyHashes(Head(dicts)), UniqueKeyHashes(Tail(dicts)))

(* The in-place loop deletes from self._keys while it iterates on it: the first
   deletion is made, and the next step of the iteration raises RuntimeError *)
SymmetricInplace(self, unique_key_hashes) ==
    IF KeyHashes(self) \subseteq unique_key_hashes THEN Done(self, self)
    ELSE Raise("RuntimeError",
               _del_known_key_hashes(self, {self.v.entries[CHOOSE i \in 1..Len(self.v.entries) :
                    /\ self.v.entries[i].key_hash \notin unique_key_hashes
                    /\ \A j \in 1..(i - 1) : self.v.entries[j].key_hash \in unique_key_hashes].key_hash}))

(* The entries es set on w, one after the other *)
RECURSIVE SetAll(_, _)
SetAll(w, es) ==
    IF es = <<>> THEN w ELSE SetAll(_set_key_with_hash(w, Head(es).key, Head(es).value, Head(es).key_hash), Tail(es))

(* The last loop: `d is not _OBJECT_MISSING' holds for every d, so every digest left
   is read from the first of dicts, d._keys[key_hash] raising KeyError for one that
   d does not hold (after the ones the set gave before it were set on working_dict);
   where d holds them all, none is left for the other dicts *)
SymmetricFill(w, dicts, unique_key_hashes) ==
    IF unique_key_hashes = {} THEN Done(w, w)
    ELSE IF unique_key_hashes \subseteq KeyHashes(Head(dicts))
    THEN Done(SetAll(w, SelectSeq(Head(dicts).v.entries, LAMBDA e : e.key_hash \in unique_key_hashes)),
              SetAll(w, SelectSeq(Head(dicts).v.entries, LAMBDA e : e.key_hash \in unique_key_hashes)))
    ELSE Raise("KeyError", w)

SymmetricWorking(self, dicts, inplace, w) ==
    IF w.out # "returned" THEN w
    ELSE IF SymmetricFill(w.val, dicts, UniqueKeyHashes(dicts) \ KeyHashes(self)).out # "returned"
    THEN Raise("KeyError", IF inplace THEN w.val ELSE self)
    ELSE Done(SymmetricFill(w.val, dicts, UniqueKeyHashes(dicts) \ KeyHashes(self)).val,
              IF inplace THEN SymmetricFill(w.val, dicts, UniqueKeyHashes(dicts) \ KeyHashes(self)).val ELSE self)

SymmetricEnsured(self, inplace, ds) ==
    IF ds.out # "returned" THEN Raise(ds.out, self)
    ELSE SymmetricWorking(self, ds.val, inplace,
            IF inplace THEN SymmetricInplace(self, UniqueKeyHashes(ds.val)) ELSE SelfOrNew(self, FALSE))

BetterDict_symmetric_difference(self, dicts, inplace) ==
    IF dicts = <<>> THEN SelfOrNew(self, inplace)
    ELSE SymmetricEnsured(self, inplace, _ensure_better_dicts(self.k, dicts))

(* self.symmetric_difference(self, *dicts, inplace=inplace): self is the first of
   the operands *)
BetterDict_xor(self, dicts, inplace) == BetterDict_symmetric_difference(self, <<self>> \o dicts, inplace)

(* symmetric_difference of HashableDict makes working_dict with
   self._create_dict_with_same_kwargs(), which raises: no statement after that line
   can run *)
HashableDict_symmetric_difference(self, other, inplace) ==
    IF _ensure_compatible_kwargs(self, other).out # "returned" THEN _ensure_compatible_kwargs(self, other)
    ELSE _create_dict_with_same_kwargs(self, PyNone)

(* self.symmetric_difference(self, __other, inplace=inplace): inplace is given
   twice, by position and by name, and the call raises TypeError *)
HashableDict_xor(self, other, inplace) == Raise("TypeError", self)

(***************************************************************************)
(* flip, apply, pop and clear.                                             *)
(***************************************************************************)
(* [(v, k) for k, v in self.items()] *)
Flipped(self) == PyList(0, [i \in 1..Len(self.v.entries) |-> PyTuple(0, <<self.v.entries[i].value, self.v.entries[i].key>>)])

clear(self) == [self EXCEPT !.v.entries = <<>>]

(* self[new_k] = new_v for each of new_k_v, on self *)
RECURSIVE FlipLoop(_, _)
FlipNext(r, new_k_v) == IF r.out # "returned" THEN r ELSE FlipLoop(r.self, new_k_v)
FlipLoop(self, new_k_v) ==
    IF new_k_v = <<>> THEN Done(PyNone, self)
    ELSE FlipNext(__setitem__(self, Head(new_k_v).v[1], Head(new_k_v).v[2]), Tail(new_k_v))

(* return self.__class__([(v, k) for k, v in self.items()]), which flip comes to
   with inplace too: self is the object as the in-place branch left it *)
FlipReturn(r) ==
    IF r.out # "returned" THEN r
    ELSE IF __init__(r.self.k, Flipped(r.self)).out # "returned" THEN Raise(__init__(r.self.k, Flipped(r.self)).out, r.self)
    ELSE Done(NewObject(__init__(r.self.k, Flipped(r.self)).self), r.self)

BetterDict_flip(self, inplace) ==
    FlipReturn(IF inplace THEN FlipLoop(clear(self), Flipped(self).v) ELSE Done(PyNone, self))

(* flip of HashableDict starts with self._create_dict_with_same_kwargs(...), which
   raises: no statement after that line can run *)
HashableDict_flip(self, inplace) == _create_dict_with_same_kwargs(self, Flipped(self))

(* func(k, v) of the functions a caller passes here *)
CallFunc(func, k, v) == IF func = "key" THEN k ELSE PyTuple(0, <<k, v>>)

Applied(self, func) ==
    [i \in 1..Len(self.v.entries) |-> [self.v.entries[i] EXCEPT !.value = CallFunc(func, self.v.entries[i].key, self.v.entries[i].value)]]

(* cls._from_keys_and_hashes(kvh): cls() and the entries set on it *)
_from_keys_and_hashes(cls, kvh) == NewObject(SetAll(DictObject(cls, TRUE, <<>>), kvh))

BetterDict_apply(self, func, inplace) ==
    IF inplace THEN Done(SetAll(self, Applied(self, func)), SetAll(self, Applied(self, func)))
    ELSE Done(_from_keys_and_hashes(self.k, Applied(self, func)), self)

(* pop: the KeyError of an absent key gives default where one was passed *)
PopFound(self, key, key_hash, default) ==
    IF _contains_key_hash(self, key_hash)
    THEN Done(_get_value_with_hash(self, key, key_hash, _RAISE_ERR_ON_NO_KEY).val, _del_with_hash(self, key, key_hash, TRUE).self)
    ELSE IF default = _RAISE_ERR_ON_NO_KEY THEN Raise("KeyError", self)
    ELSE Done(default, self)

pop(self, key, default) == Hashing(_hash_key(self, key), self, PopFound(self, key, _hash_key(self, key), default))

(***************************************************************************)
(* The objects the caller may hold.                                        *)
(***************************************************************************)

Scalars ==
    {PyNone, PyEllipsis, PyEnum("_TempEnum", "A"), PyEnum("_TempEnum", "C"), PyBool(TRUE), PyBool(FALSE)}
    \cup {PyInt(i) : i \in 0..MaxInt}
    \cup {PyFloat(neg, n) : neg \in BOOLEAN, n \in 0..MaxInt}
    \cup {PyComplex(Flt(FALSE, 1), PZero), PyComplex(Flt(FALSE, 1), Flt(TRUE, 0)), NpInt64(1)}
    \cup {PyStr("a", 0), PyStr("a", 1), PyStr("a", _MAX_STR_LEN), PyBytes("a", 0), PyBytes("a", 1),
          PyBytes("a", _MAX_STR_LEN), PyByteArray("a", 1), PyMemoryView("a", 1)}
    \cup {PyRange(0, 0, 1), PyRange(0, 0, 2), PyRange(0, 1, 1), PyType("int")}

Containers ==
    {PyList(0, s) : s \in UNION {[1..n -> {PyInt(1), NpInt64(1)}] : n \in 0..MaxLen}}
    \cup {PyList(1, <<PyInt(1)>>), PyList(0, <<PyBool(TRUE)>>), PyList(0, <<PyStr("a", 1)>>),
          PyList(0, <<PyList(0, <<PyInt(1)>>)>>), PyList(0, <<PyBytes("a", _MAX_STR_LEN)>>)}
    \cup {PyTuple(0, <<>>), PyTuple(0, <<PyInt(1)>>)}
    \cup {NdArray(0, "int64", <<1>>, <<NpInt64(1)>>), NdArray(0, "object", <<1>>, <<PyInt(1)>>),
          NdArray(0, "float64", <<0>>, <<>>)}
    \cup {PySet({PyInt(1)}), PySet({PyBool(TRUE)}), PyFrozenSet({PyInt(1)}), PySet({})}
    \cup {PyDict(0, <<<<PyInt(1), PyInt(1)>>>>), PyDict(1, <<<<PyInt(1), NpInt64(1)>>>>), PyDict(0, <<>>)}
    \cup {DictKeys(0, <<PyInt(1)>>), DictValues(0, <<PyInt(1)>>)}

Customs ==
    {TempHashableEQ(0, 16, "aa", PyList(0, <<PyInt(1)>>), PyList(0, <<PyInt(1)>>)),
     TempHashableEQ(1, 16, "aa", PyList(0, <<NpInt64(1)>>), PyList(0, <<PyInt(1)>>)),
     TempHashableEQ(2, 16, "aa", PyList(0, <<PyInt(1)>>), PyList(0, <<NpInt64(1)>>)),
     TempHashableEQ(3, 2, "", PyNone, PyNone)}

Values == Scalars \cup Containers \cup Customs

Selectors == {SelNone, SelNotStr, SelStr("", ""), SelStr("l", "ist_val"), SelStr("[", "0]"), SelStr("?", "x"), SelStr("_", "x")}
Flags == {"Default", "True", "False"}
Cells == {Flt(FALSE, 0), Flt(FALSE, 1)}

NoCall == [called |-> FALSE, out |-> "None", log |-> <<>>]

(* No dictionary operation made yet; and no dictionary at all *)
NoOperation ==
    [op |-> "none", cls |-> "", key |-> PyNone, value |-> PyNone, dicts |-> <<>>, inplace |-> FALSE, method |-> CmOther,
     flip_operands |-> FALSE, out |-> "returned", val |-> PyNone, self |-> PyNone]

NoDictionary == hashing = "gstats_utils" /\ A = PyNone /\ B = PyNone /\ result = NoOperation

(* No thread but the caller's, and the clock not read *)
NoThreads == threads = <<>> /\ now = 0

Init ==
    /\ a \in Values
    /\ b \in Values
    /\ c = PyNone
    /\ kwargs \in [selector : {SelNone}, strict_types : Flags, unordered : Flags, raise_err : Flags]
    /\ _CURR_EQUAL_KWARGS = KwNone
    /\ uninit \in Cells
    /\ ret = NoCall
    /\ digest = <<>>
    /\ NoDictionary
    /\ NoThreads

(* The call r of equal() ends: its outcome goes to the caller *)
Returns(r) ==
    /\ ret' = [called |-> TRUE, out |-> r.out, log |-> r.log]
    /\ _CURR_EQUAL_KWARGS' = r.curr

(* ret = equal(a, b, **kwargs) *)
Equal ==
    /\ Returns(equal(a, b, kwargs.selector, kwargs.strict_types, kwargs.unordered, kwargs.raise_err, _CURR_EQUAL_KWARGS, 0))
    /\ UNCHANGED <<a, b, c, kwargs, uninit, digest, dictvars, threadvars>>

Next == Equal

Spec == Init /\ [][Next]_vars

(***************************************************************************)
(* Calls with a selector.                                                  *)
(***************************************************************************)
SelectorValues ==
    Customs \cup {PyNone, PyInt(1), PyStr("a", 1), PyBytes("a", _MAX_STR_LEN), PyList(0, <<>>), PyList(0, <<PyInt(1)>>),
                  PyList(1, <<PyInt(1)>>), PyList(0, <<NpInt64(1)>>), PyList(0, <<PyBytes("a", _MAX_STR_LEN)>>),
                  PyTuple(0, <<PyInt(1)>>), PyDict(0, <<>>)}

InitSelector ==
    /\ a \in SelectorValues
    /\ b \in SelectorValues
    /\ c = PyNone
    /\ kwargs \in [selector : Selectors, strict_types : Flags, unordered : {"Default", "True"}, raise_err : Flags]
    /\ _CURR_EQUAL_KWARGS = KwNone
    /\ uninit \in Cells
    /\ ret = NoCall
    /\ digest = <<>>
    /\ NoDictionary
    /\ NoThreads

SpecSelector == InitSelector /\ [][Next]_vars

(***************************************************************************)
(* Three objects compared pairwise.                                        *)
(***************************************************************************)
InitTransitive ==
    /\ a \in Values
    /\ b \in Containers
    /\ c \in Containers
    /\ kwargs \in [selector : {SelNone}, strict_types : {"Default", "True"}, unordered : {"Default"}, raise_err : {"Default"}]
    /\ _CURR_EQUAL_KWARGS = KwNone
    /\ uninit \in Cells
    /\ ret = NoCall
    /\ digest = <<>>
    /\ NoDictionary
    /\ NoThreads

SpecTransitive == InitTransitive /\ [][Next]_vars

(***************************************************************************)
(* Calls of hash_object() on the two objects, next to equal().  The        *)
(* function keeps nothing between calls: a behaviour makes one.            *)
(***************************************************************************)
Methods == {[t |-> "str", name |-> "sha256"], [t |-> "str", name |-> "md5"], [t |-> "str", name |-> "crc"], [t |-> "other", name |-> ""]}
RetTypes == {RetType("str"), RetStr("STR"), RetStr("int"), RetType("bytes"), RetType("list"), RetStr("hex"), RetOther}

InitHash ==
    /\ a \in Values
    /\ b \in Values
    /\ c = PyNone
    /\ kwargs = [selector |-> SelNone, strict_types |-> "False", unordered |-> "Default", raise_err |-> "Default"]
    /\ _CURR_EQUAL_KWARGS = KwNone
    /\ uninit = Flt(FALSE, 0)
    /\ ret = NoCall
    /\ digest = <<>>
    /\ NoDictionary
    /\ NoThreads

(* digest = hash_object(a, ...), hash_object(b, ...) of gstatsutils *)
HashObject ==
    /\ digest = <<>>
    /\ \E method \in Methods, ret_type \in RetTypes, strict_types \in BOOLEAN :
            digest' = <<[fn |-> "gstatsutils", method |-> method, ret_type |-> ret_type, strict_types |-> strict_types,
                        a |-> hash_object(a, method, ret_type, strict_types),
                        b |-> hash_object(b, method, ret_type, strict_types)]>>
    /\ UNCHANGED <<a, b, c, kwargs, _CURR_EQUAL_KWARGS, uninit, ret, dictvars, threadvars>>

(* digest = hash_object(a, ordered, method), hash_object(b, ordered, method) of gstats_utils *)
HashObjectUnfinished ==
    /\ digest = <<>>
    /\ \E method \in Methods, ordered \in BOOLEAN :
            digest' = <<[fn |-> "gstats_utils", method |-> method, ret_type |-> RetType("str"), strict_types |-> ordered,
                        a |-> gstats_utils_hash_object(a, ordered, method),
                        b |-> gstats_utils_hash_object(b, ordered, method)]>>
    /\ UNCHANGED <<a, b, c, kwargs, _CURR_EQUAL_KWARGS, uninit, ret, dictvars, threadvars>>

NextHash == Equal \/ HashObject

SpecHash == InitHash /\ [][NextHash]_vars

(***************************************************************************)
(* hash_object() on containers that contain themselves.                    *)
(***************************************************************************)
CyclicValues == {PyList(2, <<Ref(2)>>), PyList(3, <<PyInt(1), PyList(4, <<Ref(3)>>)>>), PyTuple(5, <<PyList(6, <<Ref(5)>>)>>)}

InitCyclic ==
    /\ a \in CyclicValues
    /\ b \in CyclicValues \cup {PyList(0, <<>>)}
    /\ c = PyNone
    /\ kwargs = [selector |-> SelNone, strict_types |-> "False", unordered |-> "Default", raise_err |-> "Default"]
    /\ _CURR_EQUAL_KWARGS = KwNone
    /\ uninit = Flt(FALSE, 0)
    /\ ret = NoCall
    /\ digest = <<>>
    /\ NoDictionary
    /\ NoThreads

NextCyclic == HashObject \/ HashObjectUnfinished

SpecCyclic == InitCyclic /\ [][NextCyclic]_vars

(***************************************************************************)
(* A caller of the dictionaries.  The package is held under two names:     *)
(* `from ..hashing import hash_object' finds the hash_object of            *)
(* gstats_utils, and the one of gstatsutils where the package is the       *)
(* renamed one.                                                            *)
(***************************************************************************)
MaxEntries == 2

HashingModules == {"gstats_utils", "gstatsutils"}

KeyObjects ==
    {PyNone, PyInt(0), PyInt(1), PyFloat(TRUE, 0), PyBool(TRUE), PyStr("a", 1), PyList(0, <<PyInt(1)>>),
     PySet({PyInt(1)}), TempHashableEQ(3, 2, "", PyNone, PyNone)}

ValueObjects == {PyInt(1), PyStr("a", 1)}

Pair(k, v) == PyTuple(0, <<k, v>>)

DictInputs ==
    {PyNone, PyInt(1), PyDict(0, <<>>), PyList(0, <<>>), PyList(0, <<PyInt(1)>>),
     PyDict(0, <<<<PyInt(1), PyInt(1)>>>>), PyDict(0, <<<<PyInt(0), PyInt(1)>>, <<PyInt(1), PyStr("a", 1)>>>>),
     PyList(0, <<Pair(PyList(0, <<PyInt(1)>>), PyInt(1))>>),
     PyList(0, <<Pair(PyInt(1), PyInt(1)), Pair(PyFloat(FALSE, 1), PyStr("a", 1))>>),
     PyList(0, <<PyTuple(0, <<PyInt(1), PyInt(1), PyInt(1)>>)>>),
     PyList(0, <<PyStr("a", 2)>>)}

(* The dictionary a caller gets from cls() and the assignments d[k] = v of the
   pairs, in order; an assignment that raises leaves it as it was *)
RECURSIVE Built(_, _)
Built(d0, pairs) == IF pairs = <<>> THEN d0 ELSE Built(__setitem__(d0, pairs[1][1], pairs[1][2]).self, Tail(pairs))

ConflictMethods ==
    {CmStr("keep_right"), CmStr("keep_left"), CmStr("raise"), CmStr("raise_on_conflict"), CmStr("keep_both"),
     CmStr("same"), CmConst("KEEP_LEFT"), CmCallable("first"), CmOther}

(* What the operation r on A leaves: A as the method left it, and its outcome *)
Leaves(call, r) ==
    /\ A' = r.self
    /\ result' = [call EXCEPT !.out = r.out, !.val = r.val, !.self = A]
    /\ UNCHANGED <<hashing, B, threadvars>>
    /\ UNCHANGED equalvars

InitDict ==
    /\ a = PyNone /\ b = PyNone /\ c = PyNone
    /\ kwargs = [selector |-> SelNone, strict_types |-> "Default", unordered |-> "Default", raise_err |-> "Default"]
    /\ _CURR_EQUAL_KWARGS = KwNone
    /\ uninit = Flt(FALSE, 0)
    /\ ret = NoCall
    /\ digest = <<>>
    /\ hashing \in HashingModules
    /\ A = PyNone
    /\ B = PyNone
    /\ result = NoOperation
    /\ NoThreads

(* A = cls(dict_input): A stays unbound where the constructor raises *)
Construct ==
    /\ A = PyNone
    /\ \E cls \in DictClasses, dict_input \in DictInputs :
         /\ A' = IF __init__(cls, dict_input).out = "returned" THEN __init__(cls, dict_input).self ELSE PyNone
         /\ result' = [NoOperation EXCEPT !.op = "__init__", !.cls = cls, !.dicts = <<dict_input>>,
                                         !.out = __init__(cls, dict_input).out]
    /\ UNCHANGED <<hashing, B, threadvars>>
    /\ UNCHANGED equalvars

(* A[key] = value *)
SetItem ==
    /\ A # PyNone
    /\ \E key \in KeyObjects, value \in ValueObjects :
         /\ __len__(__setitem__(A, key, value).self) <= MaxEntries
         /\ Leaves([NoOperation EXCEPT !.op = "__setitem__", !.key = key, !.value = value], __setitem__(A, key, value))

(* A[key] *)
GetValue ==
    /\ A # PyNone
    /\ \E key \in KeyObjects : Leaves([NoOperation EXCEPT !.op = "__getitem__", !.key = key], __getitem__(A, key))

(* del A[key] *)
DelItem ==
    /\ A # PyNone
    /\ \E key \in KeyObjects : Leaves([NoOperation EXCEPT !.op = "__delitem__", !.key = key], __delitem__(A, key))

(* The operands a caller passes: none, B, or A itself *)
Operands == {<<>>, <<B>>, <<A>>}

(* A.union(dicts..., inplace=inplace, conflict_method=conflict_method); HashableDict
   takes one operand *)
Union ==
    /\ A # PyNone
    /\ \E dicts \in Operands, inplace \in BOOLEAN, conflict_method \in ConflictMethods :
         /\ A.k = "HashableDict" => dicts # <<>>
         /\ Leaves([NoOperation EXCEPT !.op = "union", !.dicts = dicts, !.inplace = inplace, !.method = conflict_method],
                   IF A.k = "BetterDict" THEN BetterDict_union(A, dicts, inplace, conflict_method)
                   ELSE HashableDict_union(A, dicts[1], inplace, conflict_method))

(* A.intersection(dicts..., inplace=inplace, keep_value_method=keep_value_method) *)
Intersection ==
    /\ A # PyNone
    /\ \E dicts \in Operands, inplace \in BOOLEAN, keep_value_method \in ConflictMethods :
         /\ A.k = "HashableDict" => dicts # <<>>
         /\ Leaves([NoOperation EXCEPT !.op = "intersection", !.dicts = dicts, !.inplace = inplace, !.method = keep_value_method],
                   IF A.k = "BetterDict" THEN BetterDict_intersection(A, dicts, inplace, keep_value_method)
                   ELSE HashableDict_intersection(A, dicts[1], inplace, keep_value_method))

(* A.difference(dicts..., inplace=inplace, flip_operands=flip_operands) *)
Difference ==
    /\ A # PyNone
    /\ \E dicts \in Operands, inplace \in BOOLEAN, flip_operands \in BOOLEAN :
         /\ A.k = "HashableDict" => dicts # <<>>
         /\ Leaves([NoOperation EXCEPT !.op = "difference", !.dicts = dicts, !.inplace = inplace, !.flip_operands = flip_operands],
                   IF A.k = "BetterDict" THEN BetterDict_difference(A, dicts, inplace, flip_operands)
                   ELSE HashableDict_difference(A, dicts[1], inplace, flip_operands))

(* A.symmetric_difference(dicts..., inplace=inplace) *)
SymmetricDifference ==
    /\ A # PyNone
    /\ \E dicts \in Operands, inplace \in BOOLEAN :
         /\ A.k = "HashableDict" => dicts # <<>>
         /\ Leaves([NoOperation EXCEPT !.op = "symmetric_difference", !.dicts = dicts, !.inplace = inplace],
                   IF A.k = "BetterDict" THEN BetterDict_symmetric_difference(A, dicts, inplace)
                   ELSE HashableDict_symmetric_difference(A, dicts[1], inplace))

(* A.xor(dicts..., inplace=inplace) *)
Xor ==
    /\ A # PyNone
    /\ \E dicts \in Operands, inplace \in BOOLEAN :
         /\ A.k = "HashableDict" => dicts # <<>>
         /\ Leaves([NoOperation EXCEPT !.op = "xor", !.dicts = dicts, !.inplace = inplace],
                   IF A.k = "BetterDict" THEN BetterDict_xor(A, dicts, inplace)
                   ELSE HashableDict_xor(A, dicts[1], inplace))

(* A.flip(inplace=inplace); invert is the same call *)
Flip ==
    /\ A # PyNone
    /\ \E inplace \in BOOLEAN :
         Leaves([NoOperation EXCEPT !.op = "flip", !.inplace = inplace],
                IF A.k = "BetterDict" THEN BetterDict_flip(A, inplace) ELSE HashableDict_flip(A, inplace))

Funcs == {"key", "pair"}

(* A.apply(func, inplace=inplace), which BetterDict alone has *)
Apply ==
    /\ A # PyNone
    /\ A.k = "BetterDict"
    /\ \E func \in Funcs, inplace \in BOOLEAN :
         Leaves([NoOperation EXCEPT !.op = "apply", !.inplace = inplace, !.method = CmCallable(func)],
                BetterDict_apply(A, func, inplace))

(* A.pop(key) and A.pop(key, default) *)
Pop ==
    /\ A # PyNone
    /\ \E key \in KeyObjects, default \in {_RAISE_ERR_ON_NO_KEY, PyNone} :
         Leaves([NoOperation EXCEPT !.op = "pop", !.key = key, !.value = default], pop(A, key, default))

(* A.clear() *)
Clear ==
    /\ A # PyNone
    /\ Leaves([NoOperation EXCEPT !.op = "clear"], Done(PyNone, clear(A)))

NextDict == Construct \/ SetItem \/ GetValue \/ DelItem

SpecDict == InitDict /\ [][NextDict]_vars

(***************************************************************************)
(* The set operations, on dictionaries that a caller has filled.          *)
(***************************************************************************)
Fillings ==
    {<<>>, << <<PyInt(1), PyInt(1)>> >>, << <<PyStr("a", 1), PyInt(1)>> >>,
     << <<PyInt(0), PyStr("a", 1)>>, <<PyInt(1), PyInt(1)>> >>,
     << <<PyInt(1), PyStr("a", 1)>>, <<PyList(0, <<PyInt(1)>>), PyInt(1)>> >>}

InitAlgebra ==
    /\ a = PyNone /\ b = PyNone /\ c = PyNone
    /\ kwargs = [selector |-> SelNone, strict_types |-> "Default", unordered |-> "Default", raise_err |-> "Default"]
    /\ _CURR_EQUAL_KWARGS = KwNone
    /\ uninit = Flt(FALSE, 0)
    /\ ret = NoCall
    /\ digest = <<>>
    /\ hashing \in HashingModules
    /\ \E cls \in DictClasses :
         /\ A \in {Built(DictObject(cls, TRUE, <<>>), pairs) : pairs \in Fillings}
         /\ B \in {Built(DictObject(cls, TRUE, <<>>), pairs) : pairs \in Fillings}
                \cup {PyDict(0, <<>>), PyDict(0, << <<PyInt(0), PyInt(1)>>, <<PyInt(1), PyStr("a", 1)>> >>)}
                \cup {PyList(0, <<Pair(PyInt(1), PyInt(1)), Pair(PyStr("a", 1), PyInt(1))>>)}
    /\ result = NoOperation
    /\ NoThreads

NextAlgebra == Union \/ Intersection \/ Difference

SpecAlgebra == InitAlgebra /\ [][NextAlgebra]_vars

NextSymmetric == SymmetricDifference \/ Xor

SpecSymmetric == InitAlgebra /\ [][NextSymmetric]_vars

(***************************************************************************)
(* Every operation that takes inplace, as the first operation on           *)
(* dictionaries that a caller has filled.                                  *)
(***************************************************************************)
FirstOperation == result.op = "none"

NextOperations ==
    \/ FirstOperation /\ Union
    \/ FirstOperation /\ Intersection
    \/ FirstOperation /\ Difference
    \/ FirstOperation /\ SymmetricDifference
    \/ FirstOperation /\ Flip
    \/ FirstOperation /\ Apply

SpecOperations == InitAlgebra /\ [][NextOperations]_vars


(***************************************************************************)
(* Sequences of operations on one dictionary, the bulk ones in place.      *)
(***************************************************************************)
MapKeys == {PyInt(1), PyList(0, <<PyInt(1)>>)}

(* The bulk operations and the assignments are made while the values are those a
   caller gave: func and flip are not applied to what they made *)
GivenValues == A # PyNone /\ \A i \in 1..Len(A.v.entries) : A.v.entries[i].value \in ValueObjects

NextMaps ==
    \/ Construct /\ result'.dicts = <<PyNone>>
    \/ GivenValues /\ SetItem /\ result'.key \in MapKeys
    \/ DelItem /\ result'.key \in MapKeys
    \/ Pop /\ result'.key \in MapKeys
    \/ Clear
    \/ GivenValues /\ Union /\ result'.inplace
    \/ GivenValues /\ Intersection /\ result'.inplace
    \/ GivenValues /\ Difference /\ result'.inplace
    \/ GivenValues /\ SymmetricDifference /\ result'.inplace
    \/ GivenValues /\ Flip /\ result'.inplace
    \/ GivenValues /\ Apply /\ result'.inplace

SpecMaps == InitDict /\ [][NextMaps]_vars

(***************************************************************************)
(* Two threads that each make one top-level call equal(a, b, **given).     *)
(* The interpreter may switch threads between any two bytecodes; a step    *)
(* here is a run of statements, so the behaviours are some of those the    *)
(* threads can show.                                                       *)
(***************************************************************************)
ThreadIds == {1, 2}

ThreadCall(given) ==
    [pc |-> "call", given |-> given, control_kwargs |-> FALSE, prev |-> Kw(FALSE, FALSE)[1],
     strict_types |-> FALSE, unordered |-> FALSE, out |-> "None"]

ThreadValues == {PyInt(1), PyFloat(FALSE, 1), PyList(0, <<PyInt(1)>>), PyList(0, <<NpInt64(1)>>)}

InitThreads ==
    /\ a \in ThreadValues
    /\ b \in ThreadValues
    /\ c = PyNone
    /\ kwargs = [selector |-> SelNone, strict_types |-> "Default", unordered |-> "Default", raise_err |-> "Default"]
    /\ _CURR_EQUAL_KWARGS = KwNone
    /\ uninit = Flt(FALSE, 0)
    /\ ret = NoCall
    /\ digest = <<>>
    /\ NoDictionary
    /\ threads \in [ThreadIds -> {ThreadCall(given) :
                        given \in [strict_types : Flags, unordered : {"Default", "True"}, raise_err : {"Default"}]}]
    /\ now = 0

(* The statements of equal() before the with block (equality.py 104-121): the thread
   takes the control of the record if it finds None, keeps the flags it finds and
   writes the ones it was given *)
ThreadEnters(t) ==
    /\ threads[t].pc = "call"
    /\ threads' = [threads EXCEPT
            ![t].pc = "body",
            ![t].control_kwargs = (_CURR_EQUAL_KWARGS = KwNone),
            ![t].prev = (IF _CURR_EQUAL_KWARGS = KwNone THEN Kw(FALSE, FALSE) ELSE _CURR_EQUAL_KWARGS)[1],
            ![t].strict_types = Resolve(threads[t].given.strict_types, _EQ_DEFAULT_STRICT_TYPES,
                                        (IF _CURR_EQUAL_KWARGS = KwNone THEN Kw(FALSE, FALSE) ELSE _CURR_EQUAL_KWARGS)[1].strict_types),
            ![t].unordered = Resolve(threads[t].given.unordered, _EQ_DEFAULT_UNORDERED,
                                     (IF _CURR_EQUAL_KWARGS = KwNone THEN Kw(FALSE, FALSE) ELSE _CURR_EQUAL_KWARGS)[1].unordered)]
    /\ _CURR_EQUAL_KWARGS' = Kw(threads'[t].strict_types, threads'[t].unordered)
    /\ UNCHANGED <<a, b, c, kwargs, uninit, ret, digest, dictvars, now>>

(* The body r of the with block has run: its nested calls have read and written
   the record *)
BodyEnds(t, r) ==
    /\ threads' = [threads EXCEPT ![t].pc = "exit", ![t].out = r.out]
    /\ _CURR_EQUAL_KWARGS' = r.curr

ThreadBody(t) ==
    /\ threads[t].pc = "body"
    /\ BodyEnds(t, EqualBody(a, b, SelNone, threads[t].strict_types, threads[t].unordered,
                             threads[t].given.raise_err = "True", _CURR_EQUAL_KWARGS, 0))
    /\ UNCHANGED <<a, b, c, kwargs, uninit, ret, digest, dictvars, now>>

(* __exit__: the item assignment of a thread that has not the control raises
   TypeError where the record is None, and that exception leaves the call *)
ThreadExits(t) ==
    /\ threads[t].pc = "exit"
    /\ IF ~threads[t].control_kwargs /\ _CURR_EQUAL_KWARGS = KwNone
       THEN /\ threads' = [threads EXCEPT ![t].pc = "done", ![t].out = "TypeError"]
            /\ UNCHANGED _CURR_EQUAL_KWARGS
       ELSE /\ threads' = [threads EXCEPT ![t].pc = "done"]
            /\ _CURR_EQUAL_KWARGS' = ReturnCurrEqualKwargs(threads[t].control_kwargs, threads[t].prev, _CURR_EQUAL_KWARGS)
    /\ UNCHANGED <<a, b, c, kwargs, uninit, ret, digest, dictvars, now>>

NextThreads == \E t \in ThreadIds : ThreadEnters(t) \/ ThreadBody(t) \/ ThreadExits(t)

SpecThreads == InitThreads /\ [][NextThreads]_vars

(***************************************************************************)
(* timeout_wrapper (gstats_utils/pythonutils/misc.py): one call of the     *)
(* function it returns, wraped_func, and the worker thread the call        *)
(* starts.  The clock counts ticks from the call; a sleep of the wrapper   *)
(* (1e-8 s at first, 0.1 s at most) is shorter than a tick and ends at any *)
(* moment.  func returns a value, raises, or never ends.                   *)
(***************************************************************************)
MaxTime == 3

Timeouts == 0..(MaxTime - 1)
FuncKinds == {"returns", "raises", "never"}

InitTimeout ==
    /\ a = PyNone /\ b = PyNone /\ c = PyNone
    /\ kwargs = [selector |-> SelNone, strict_types |-> "Default", unordered |-> "Default", raise_err |-> "Default"]
    /\ _CURR_EQUAL_KWARGS = KwNone
    /\ uninit = Flt(FALSE, 0)
    /\ ret = NoCall
    /\ digest = <<>>
    /\ NoDictionary
    /\ now = 0
    /\ \E timeout \in Timeouts, func \in FuncKinds :
         threads = [wrapper |-> [pc |-> "call", timeout |-> timeout, init_time |-> 0, out |-> "", val |-> "None", seen |-> ""],
                    worker |-> [func |-> func, state |-> "unstarted", _return |-> "None", ended |-> 0]]

Others == <<a, b, c, kwargs, _CURR_EQUAL_KWARGS, uninit, ret, digest, dictvars>>

(* thread = _TimeoutFuncThread(func, ...); thread.start(); init_time = time.time() *)
WrapperStarts ==
    /\ threads.wrapper.pc = "call"
    /\ threads' = [threads EXCEPT !.wrapper.pc = "while", !.wrapper.init_time = now, !.worker.state = "running"]
    /\ UNCHANGED <<now, Others>>

(* wraped_func returns val by the way out: the state of the worker at that moment
   is kept in seen *)
WrapperReturns(out, val) ==
    threads' = [threads EXCEPT !.wrapper.pc = "done", !.wrapper.out = out, !.wrapper.val = val,
                               !.wrapper.seen = threads.worker.state]

(* while time.time() - init_time < timeout: ...; return timeout_ret_val *)
WrapperTests ==
    /\ threads.wrapper.pc = "while"
    /\ IF now - threads.wrapper.init_time < threads.wrapper.timeout
       THEN threads' = [threads EXCEPT !.wrapper.pc = "alive"]
       ELSE WrapperReturns("timeout", "timeout_ret_val")
    /\ UNCHANGED <<now, Others>>

(* if thread.is_alive(): time.sleep(sleep_time) ... else: return thread._return *)
WrapperPolls ==
    /\ threads.wrapper.pc = "alive"
    /\ IF threads.worker.state = "running"
       THEN threads' = [threads EXCEPT !.wrapper.pc = "sleep"]
       ELSE WrapperReturns("else", threads.worker._return)
    /\ UNCHANGED <<now, Others>>

(* time.sleep returns *)
WrapperWakes ==
    /\ threads.wrapper.pc = "sleep"
    /\ threads' = [threads EXCEPT !.wrapper.pc = "while"]
    /\ UNCHANGED <<now, Others>>

(* run: self._return = self._func(...), func returning *)
RunReturns ==
    /\ threads.worker.state = "running"
    /\ threads.worker.func = "returns"
    /\ threads' = [threads EXCEPT !.worker.state = "finished", !.worker._return = "value", !.worker.ended = now]
    /\ UNCHANGED <<now, Others>>

(* run, func raising: the exception ends the thread and _return stays None *)
RunRaises ==
    /\ threads.worker.state = "running"
    /\ threads.worker.func = "raises"
    /\ threads' = [threads EXCEPT !.worker.state = "raised", !.worker.ended = now]
    /\ UNCHANGED <<now, Others>>

(* Time passes *)
Tick ==
    /\ threads.wrapper.pc # "call"
    /\ now < MaxTime
    /\ now' = now + 1
    /\ UNCHANGED <<threads, Others>>

Wrapper == WrapperStarts \/ WrapperTests \/ WrapperPolls \/ WrapperWakes

NextTimeout == WrapperStarts \/ WrapperTests \/ WrapperPolls \/ WrapperWakes \/ RunReturns \/ RunRaises \/ Tick

SpecTimeout == InitTimeout /\ [][NextTimeout]_vars

(* The calling thread is scheduled and time passes; func is not made to end *)
SpecTimeoutFair == SpecTimeout /\ WF_vars(Wrapper) /\ WF_vars(Tick)
(***************************************************************************)
(* Properties.                                                             *)
(***************************************************************************)
(* What a caller sees of a call: True, something false, or a failure *)
Verdict(out) ==
    CASE out = "True" -> "True"
      [] out \in {"False", "None"} -> "False"
      [] OTHER -> "failure"

(* equal(x, y) called afresh with the flags of kwargs *)
Again(x, y) ==
    equal(x, y, kwargs.selector, kwargs.strict_types, kwargs.unordered, kwargs.raise_err, KwNone, 0).out

(* Both digests of the call of hash_object were returned *)
BothHashed == digest # <<>> /\ digest[1].a.out = "returned" /\ digest[1].b.out = "returned"

(* C1: whenever equal(a, b) with strict_types=False has returned True, hash_object
   with strict_types=False gives a and b the same digest under one method and one
   return type. *)
C1_EqualImpliesSameDigest ==
    (ret.called /\ ret.out = "True" /\ BothHashed /\ ~digest[1].strict_types) => digest[1].a = digest[1].b

(* C2: equal is symmetric: under the same flags equal(a, b) and equal(b, a) are both
   True, both false or both a failure. *)
C2_Symmetric ==
    ret.called => Verdict(ret.out) = Verdict(Again(b, a))

(* C3: equal is transitive: under the same flags, equal(a, b) True and equal(b, c)
   True give equal(a, c) True. *)
C3_Transitive ==
    (ret.called /\ ret.out = "True" /\ Again(b, c) = "True") => Again(a, c) = "True"

(* C4: equal is reflexive: equal(x, x) returns True for every value, under every
   combination of strict_types, unordered and raise_err, no selector given. *)
C4_Reflexive ==
    (ret.called /\ kwargs.selector = SelNone /\ a = b) => ret.out = "True"

C4_ReflexiveReached ==
    /\ ret.called /\ ret.out = "True"
    /\ a = PyEnum("_TempEnum", "A") /\ b = a
    /\ kwargs.strict_types = "True" /\ kwargs.unordered = "True" /\ kwargs.raise_err = "True"

(* What a false comparison gives: False, or EqualityError when raise_err is set *)
Unequal(raise_err) == IF raise_err = "True" THEN "EqualityError" ELSE "False"

BoolAndNumber(x, y) == x.k = "bool" /\ y.k \in {"int", "float", "complex"}

(* C5: a bool never equals an int, a float or a complex, whichever comes first, and
   two bools are equal exactly when they are the same truth value (a false
   comparison being False, or EqualityError under raise_err). *)
C5_BoolNeverEqualsNumber ==
    ret.called =>
        /\ (BoolAndNumber(a, b) \/ BoolAndNumber(b, a)) => ret.out = Unequal(kwargs.raise_err)
        /\ (a.k = "bool" /\ b.k = "bool") => ret.out = (IF a.v = b.v THEN "True" ELSE Unequal(kwargs.raise_err))

C5_BoolAgainstOneReached ==
    ret.called /\ a = PyBool(TRUE) /\ b = PyInt(1) /\ kwargs.raise_err = "Default" /\ ret.out = "False"

(* C6: raise_err=True and raise_err=False agree: the first raises EqualityError exactly
   when the second returns False, and returns True exactly when the second does. *)
C6_ModesAgree ==
    (ret.called /\ kwargs.raise_err = "True") =>
        /\ ret.out = "EqualityError" <=> equal(a, b, kwargs.selector, kwargs.strict_types, kwargs.unordered, "False", KwNone, 0).out = "False"
        /\ ret.out = "True" <=> equal(a, b, kwargs.selector, kwargs.strict_types, kwargs.unordered, "False", KwNone, 0).out = "True"

(* The selector is malformed, or cannot be applied to x *)
SelectorFails(x, sel) ==
    /\ sel.t # "None"
    /\ \/ sel.t # "str"
       \/ sel.head # "" /\ sel.head \notin Alpha \cup {".", "_", "["}
       \/ sel.head # "" /\ ~EvalSelector(x, Normalised(sel)).ok

(* C7: an exception leaving equal() is an EqualityError (only under raise_err) or an
   EqualityCheckingError, and a selector that is malformed or fails on a or on b gives
   EqualityCheckingError. *)
C7_OnlyEqualityExceptions ==
    ret.called =>
        /\ ret.out \in Raised => ret.out = "EqualityCheckingError" \/ (ret.out = "EqualityError" /\ kwargs.raise_err = "True")
        /\ (SelectorFails(a, kwargs.selector) \/ SelectorFails(b, kwargs.selector)) => ret.out = "EqualityCheckingError"

(* The call that made the i-th call of the log *)
Parent(log, i) ==
    CHOOSE j \in 1..(i - 1) : log[j].depth = log[i].depth - 1 /\ \A k \in (j + 1)..(i - 1) : log[k].depth >= log[i].depth

(* C8: a nested call of equal() that leaves out strict_types, unordered or raise_err
   runs under the value in effect in the call that encloses it. *)
C8_FlagsReachSubcalls ==
    \A i \in 2..Len(ret.log) :
        /\ ret.log[i].given.strict_types = "Default" => ret.log[i].strict_types = ret.log[Parent(ret.log, i)].strict_types
        /\ ret.log[i].given.unordered = "Default" => ret.log[i].unordered = ret.log[Parent(ret.log, i)].unordered
        /\ ret.log[i].given.raise_err = "Default" => ret.log[i].raise_err = ret.log[Parent(ret.log, i)].raise_err

(* C9: under one method and configuration hash_object(True) differs from
   hash_object(1), and hash_object(False) from hash_object(0). *)
C9_BoolNotHashedAsNumber ==
    (BothHashed /\ a.k = "bool" /\ b = PyInt(IF a.v THEN 1 ELSE 0)) => digest[1].a # digest[1].b

(* The method and ret_type of the call are ones hash_object accepts *)
ValidArgs(d) ==
    /\ d.method.t = "str" /\ d.method.name \in algorithms_available
    /\ d.ret_type \in {RetType("str"), RetStr("STR"), RetStr("int"), RetType("bytes")}

(* C10: hash_object on a container that contains itself raises CyclicObjectError. *)
C10_CycleRaises ==
    (digest # <<>> /\ ValidArgs(digest[1]) /\ ContainsItself(a)) => digest[1].a.out = "CyclicObjectError"

(* The value kind of the data model an object belongs to *)
Kind(x) ==
    CASE IsSingleton(x) -> "singleton"
      [] x.k = "bool" -> "boolean"
      [] IsInstance(x, NumericTypes) -> "numeric"
      [] x.k = "enum" -> "enum"
      [] IsInstance(x, ByteLikeTypes) -> "byte-like"
      [] x.k = "str" -> "text"
      [] x.k \in {"list", "tuple", "ndarray"} -> "sequence"
      [] x.k = "dict" -> "mapping"
      [] IsInstance(x, SetLikeTypes) -> "set"
      [] OTHER -> "other"

EncodedKinds == {"singleton", "numeric", "enum", "byte-like", "text", "sequence", "mapping", "set"}

(* C11: two values of different kinds of the data model that are not equal are never
   fed to the hasher as the same data: under one method and configuration their
   digests differ. *)
C11_KindsNeverCollide ==
    (BothHashed /\ Kind(a) \in EncodedKinds /\ Kind(b) \in EncodedKinds /\ Kind(a) # Kind(b) /\ Again(a, b) # "True")
        => digest[1].a # digest[1].b

(***************************************************************************)
(* Properties of the dictionaries.  What a dictionary ought to hold is     *)
(* stated on the pairs (key, value) of the operands, keys being the same   *)
(* when equal() says so.                                                   *)
(***************************************************************************)
SameKey(k1, k2) == EqualValues(k1, k2) = "True"

(* The pairs of a dictionary, of a native dict or of a sequence of pairs *)
PairsOf(o) ==
    CASE o.k \in DictClasses -> [i \in 1..Len(o.v.entries) |-> <<o.v.entries[i].key, o.v.entries[i].value>>]
      [] o.k = "dict" -> o.v
      [] OTHER -> [i \in 1..Len(o.v) |-> o.v[i].v]

Has(pairs, k) == \E i \in 1..Len(pairs) : SameKey(pairs[i][1], k)

(* The value last given under a key equal to k *)
Last(pairs, k) ==
    pairs[CHOOSE i \in 1..Len(pairs) : SameKey(pairs[i][1], k) /\ \A j \in (i + 1)..Len(pairs) : ~SameKey(pairs[j][1], k)][2]

(* d[k] gives value where k is present, and KeyError where it is not *)
Reads(d, k, present, value) ==
    IF present THEN __getitem__(d, k).out = "returned" /\ __getitem__(d, k).val = value
    ELSE __getitem__(d, k).out = "KeyError"

(* d has an entry of key k with the value where present, and no entry of key k
   where not *)
Maps(d, k, present, value) ==
    IF present THEN Has(PairsOf(d), k) /\ Last(PairsOf(d), k) = value
    ELSE ~Has(PairsOf(d), k)

(* d holds exactly the pairs: a later pair replacing an earlier one of the same key *)
Holds(d, pairs) ==
    /\ d.k \in DictClasses
    /\ \A k \in KeyObjects : Maps(d, k, Has(pairs, k), Last(pairs, k))
    /\ \A i, j \in 1..__len__(d) : i # j => ~SameKey(keys(d)[i], keys(d)[j])

(* C12: after A[key] = value on a dictionary made empty and filled by assignments,
   A[k] gives value for every k equal to key, and gives what it gave before for
   every k that is not equal to key. *)
C12_RoundTrip ==
    result.op = "__setitem__" =>
        /\ result.out = "returned"
        /\ \A k \in KeyObjects :
             IF SameKey(k, result.key) THEN Reads(A, k, TRUE, result.value)
             ELSE /\ __getitem__(A, k).out = __getitem__(result.self, k).out
                  /\ __getitem__(A, k).val = __getitem__(result.self, k).val

(* C13: a dictionary holds one entry per digest and its keys are key objects given
   by the caller; an assignment under a key equal to one already held succeeds,
   replaces the value and leaves len() as it was. *)
C13_OneEntryPerKey ==
    /\ A # PyNone =>
         /\ \A i, j \in 1..__len__(A) : i # j => A.v.entries[i].key_hash # A.v.entries[j].key_hash
         /\ \A i \in 1..__len__(A) : keys(A)[i] \in KeyObjects
    /\ (result.op = "__setitem__" /\ Has(PairsOf(result.self), result.key)) =>
         /\ result.out = "returned"
         /\ __len__(A) = __len__(result.self)
         /\ Maps(A, result.key, TRUE, result.value)

(* The input of a constructor is a native dict or a sequence of 2-element tuples *)
IsPairs(x) == x.k = "dict" \/ (x.k \in {"list", "tuple"} /\ \A i \in 1..Len(x.v) : x.v[i].k = "tuple" /\ Len(x.v[i].v) = 2)

(* An element of the input has no length, or a length other than 2 *)
HasNonPair(x) == x.k \in {"list", "tuple"} /\ \E i \in 1..Len(x.v) : ~PyLen(x.v[i]).ok \/ PyLen(x.v[i]).val # 2

(* C14: cls(dict_input) on a native dict or a sequence of 2-element pairs returns a
   dictionary that holds exactly those entries, a later pair replacing an earlier one
   of an equal key; an element that is not a 2-element pair makes it raise. *)
C14_Construction ==
    result.op = "__init__" =>
        /\ IsPairs(result.dicts[1]) => result.out = "returned" /\ A # PyNone /\ Holds(A, PairsOf(result.dicts[1]))
        /\ HasNonPair(result.dicts[1]) => result.out # "returned"

(* C15: del A[key] with key in A returns, and leaves A without the key, one entry
   shorter and reading as before under every other key; with key not in A it raises
   KeyError and leaves A as it was. *)
C15_Delete ==
    result.op = "__delitem__" =>
        IF Has(PairsOf(result.self), result.key)
        THEN /\ result.out = "returned"
             /\ __len__(A) = __len__(result.self) - 1
             /\ \A k \in KeyObjects :
                  Maps(A, k, ~SameKey(k, result.key) /\ Has(PairsOf(result.self), k), Last(PairsOf(result.self), k))
        ELSE result.out = "KeyError" /\ A = result.self

(* The operands of a set operation, self first *)
OperandsOf(r) == <<r.self>> \o r.dicts

Holders(ops, k) == {i \in 1..Len(ops) : Has(PairsOf(ops[i]), k)}
Leftmost(ops, k) == CHOOSE i \in Holders(ops, k) : \A j \in Holders(ops, k) : i <= j
Rightmost(ops, k) == CHOOSE i \in Holders(ops, k) : \A j \in Holders(ops, k) : i >= j
ValueIn(ops, i, k) == Last(PairsOf(ops[i]), k)

KeepsLeft(method) == method \in {CmStr("keep_left"), CmConst("KEEP_LEFT")}
KeepsRight(method) == method = CmStr("keep_right")

(* C16: union under keep_right or keep_left returns a dictionary whose keys are those
   of self and of all the others, each with the value of the rightmost (keep_right)
   or leftmost (keep_left) operand that holds it. *)
C16_Union ==
    (result.op = "union" /\ (KeepsLeft(result.method) \/ KeepsRight(result.method))) =>
        /\ result.out = "returned"
        /\ result.val.k \in DictClasses
        /\ \A k \in KeyObjects :
             Maps(result.val, k, Holders(OperandsOf(result), k) # {},
                   ValueIn(OperandsOf(result),
                           IF KeepsLeft(result.method) THEN Leftmost(OperandsOf(result), k) ELSE Rightmost(OperandsOf(result), k), k))

(* Some key is held by two operands with values that equal() does not give True for *)
Conflict(ops) ==
    \E k \in KeyObjects : \E i, j \in Holders(ops, k) : i # j /\ EqualValues(ValueIn(ops, i, k), ValueIn(ops, j, k)) # "True"

(* C17: union under the raising method raises KeyError exactly when a key is held by
   two operands with values that are not equal; else it returns a dictionary that
   holds each key of the operands with its value. *)
C17_UnionRaises ==
    (result.op = "union" /\ result.method = CmStr("raise")) =>
        IF Conflict(OperandsOf(result)) THEN result.out = "KeyError"
        ELSE /\ result.out = "returned"
             /\ result.val.k \in DictClasses
             /\ \A k \in KeyObjects :
                  Maps(result.val, k, Holders(OperandsOf(result), k) # {}, ValueIn(OperandsOf(result), Leftmost(OperandsOf(result), k), k))

(* The values the operands hold for k, in operand order *)
RECURSIVE Colliding(_, _, _)
Colliding(ops, i, k) ==
    IF i > Len(ops) THEN <<>>
    ELSE (IF i \in Holders(ops, k) THEN <<ValueIn(ops, i, k)>> ELSE <<>>) \o Colliding(ops, i + 1, k)

(* C18: with a callable as the method, union and intersection return a dictionary in
   which every key held by more than one operand has the value the callable gives
   for the tuple of the values held, in operand order. *)
C18_CallableResolves ==
    (result.op \in {"union", "intersection"} /\ result.method.t = "callable") =>
        \A k \in KeyObjects :
            Cardinality(Holders(OperandsOf(result), k)) > 1 =>
                /\ result.out = "returned"
                /\ result.val.k \in DictClasses
                /\ Maps(result.val, k, TRUE, CallConflictMethod(result.method, PyTuple(0, Colliding(OperandsOf(result), 1, k))))

(* C19: intersection under keep_left or keep_right returns a dictionary whose keys are
   those held by self and by every other operand, each with the value of self
   (keep_left) or of the last operand (keep_right), in place or not. *)
C19_Intersection ==
    (result.op = "intersection" /\ (KeepsLeft(result.method) \/ KeepsRight(result.method))) =>
        /\ result.out = "returned"
        /\ result.val.k \in DictClasses
        /\ \A k \in KeyObjects :
             Maps(result.val, k, Holders(OperandsOf(result), k) = 1..Len(OperandsOf(result)),
                   ValueIn(OperandsOf(result), IF KeepsLeft(result.method) THEN 1 ELSE Len(OperandsOf(result)), k))

(* C20: difference returns the entries of self whose key no other operand holds, and
   with flip_operands and one other operand the entries of that operand whose key
   self does not hold. *)
C20_Difference ==
    (result.op = "difference" /\ (result.flip_operands => Len(result.dicts) = 1)) =>
        /\ result.out = "returned"
        /\ result.val.k \in DictClasses
        /\ \A k \in KeyObjects :
             Maps(result.val, k,
                   Holders(OperandsOf(result), k) = {IF result.flip_operands THEN 2 ELSE 1},
                   ValueIn(OperandsOf(result), IF result.flip_operands THEN 2 ELSE 1, k))

(* C21: symmetric_difference with one other operand, and xor likewise, returns a
   dictionary that holds exactly the entries whose key one of self and the operand
   holds and the other does not, each with the value of its holder. *)
C21_SymmetricDifference ==
    (result.op \in {"symmetric_difference", "xor"} /\ Len(result.dicts) = 1) =>
        /\ result.out = "returned"
        /\ result.val.k \in DictClasses
        /\ \A k \in KeyObjects :
             Maps(result.val, k, Cardinality(Holders(OperandsOf(result), k)) = 1,
                  ValueIn(OperandsOf(result), Leftmost(OperandsOf(result), k), k))

(* An operation made with inplace=False that has no reason to raise: union and
   intersection under keep_left or keep_right, difference, symmetric_difference,
   flip and apply *)
NotInplace(r) ==
    /\ r.op \in {"union", "intersection", "difference", "symmetric_difference", "flip", "apply"}
    /\ ~r.inplace
    /\ r.op \in {"union", "intersection"} => (KeepsLeft(r.method) \/ KeepsRight(r.method))

(* C22: an operation made with inplace=False returns a dictionary object of the
   class of self that is not self, and leaves self with the entries it had. *)
C22_NotInplaceLeavesSelf ==
    NotInplace(result) =>
        /\ result.out = "returned"
        /\ result.val.k = result.self.k
        /\ result.val.id # result.self.id
        /\ A = result.self

(* An in-place union or intersection that raised *)
FailedInplace(r) == r.op \in {"union", "intersection"} /\ r.inplace /\ r.out # "returned"

DistinctValues(d) ==
    \A i, j \in 1..Len(d.v.entries) : i # j => ~SameKey(d.v.entries[i].value, d.v.entries[j].value)

(* d holds the entries of old with key and value swapped, and no other entry *)
Swapped(d, old) ==
    /\ d.k \in DictClasses
    /\ Len(d.v.entries) = Len(old.v.entries)
    /\ \A i \in 1..Len(old.v.entries) : \E j \in 1..Len(d.v.entries) :
         /\ SameKey(d.v.entries[j].key, old.v.entries[i].value)
         /\ d.v.entries[j].value = old.v.entries[i].key

(* C26: flip on a dictionary whose values are pairwise unequal returns a dictionary
   that holds exactly the entries of self with key and value swapped; with
   inplace=True what it returns is self, and self holds the swapped entries. *)
C26_Flip ==
    (result.op = "flip" /\ DistinctValues(result.self)) =>
        /\ result.out = "returned"
        /\ Swapped(result.val, result.self)
        /\ result.inplace => (result.val.id = result.self.id /\ Swapped(A, result.self))

(* The digests the map of the keys has an item for, and those the map of the
   values has an item for *)
KeysDigests(d) == {d.v.entries[i].key_hash : i \in {j \in 1..Len(d.v.entries) : d.v.entries[j].key # NoItem}}
ValuesDigests(d) == {d.v.entries[i].key_hash : i \in {j \in 1..Len(d.v.entries) : d.v.entries[j].value # NoItem}}

(* C29: after every sequence of set, delete, pop, clear and in-place union,
   intersection, difference, symmetric_difference, flip and apply, the map of the
   keys and the map of the values have the same set of digests, and len(d) is the
   size of that set; it holds after the operations that raised as well. *)
C29_MapsAgree ==
    A # PyNone =>
        /\ KeysDigests(A) = ValuesDigests(A)
        /\ __len__(A) = Cardinality(KeysDigests(A))

(* pop has taken one of two entries *)
C29_MapsAgreeReached ==
    /\ result.op = "pop"
    /\ result.out = "returned"
    /\ __len__(result.self) = 2
    /\ __len__(A) = 1
    /\ Cardinality(ValuesDigests(A)) = 1

(* The flag a top-level call works with: the one given, else False *)
StartsFrom(given, flag) == flag = (given = "True")

(* C27: _CURR_EQUAL_KWARGS is None whenever no call of equal() is running, whatever
   the last call gave; a top-level call that leaves a flag out works with False for
   it; and every call, nested ones included, leaves the record as it found it. *)
C27_RecordRestored ==
    /\ _CURR_EQUAL_KWARGS = KwNone
    /\ ret.called =>
        /\ ret.log[1].before = KwNone
        /\ StartsFrom(ret.log[1].given.strict_types, ret.log[1].strict_types)
        /\ StartsFrom(ret.log[1].given.unordered, ret.log[1].unordered)
        /\ \A i \in 1..Len(ret.log) : ret.log[i].after = ret.log[i].before

(* A call that raised after a nested call that was given a flag of its own *)
C27_RecordRestoredReached ==
    /\ ret.called
    /\ ret.out \in Raised
    /\ \E i \in 2..Len(ret.log) :
         /\ ret.log[i].given.strict_types # "Default"
         /\ ret.log[i].before # KwNone
         /\ ret.log[i].strict_types # ret.log[i].before[1].strict_types

(* C25: a call of equal() that returns gives True or False, on the paths that
   convert an operand before comparing as on the others. *)
C25_ReturnsBool == ret.called => ret.out \in {"True", "False"} \cup Raised

(* What the call of a thread gives when no other call runs *)
Alone(given) == equal(a, b, SelNone, given.strict_types, given.unordered, given.raise_err, KwNone, 0).out

(* C28: the top-level call of each of two threads gives what it gives alone: it
   works with its own flags, and does not fail for the reset of the record by the
   call of the other thread. *)
C28_ThreadsApart ==
    \A t \in DOMAIN threads : threads[t].pc = "done" => threads[t].out = Alone(threads[t].given)

WrapperDone == threads.wrapper.pc = "done"

(* func returned while less than timeout had passed since init_time *)
CompletedInTime ==
    /\ threads.worker.state = "finished"
    /\ threads.worker.ended - threads.wrapper.init_time < threads.wrapper.timeout

(* The call gave what func returned if func returned in time, and the default if not *)
ReturnsRight ==
    IF CompletedInTime THEN threads.wrapper.val = "value" ELSE threads.wrapper.val = "timeout_ret_val"

(* The call ends, whatever func does *)
C24_Terminates == <>WrapperDone

(* C24: a call of the wrapped function ends; it gives the result of func when func
   returned before the deadline and the default otherwise; and it leaves a worker
   that has not ended running. *)
C24_TimeoutCall ==
    /\ <>WrapperDone
    /\ [](WrapperDone /\ threads.worker.func # "raises" => ReturnsRight)
    /\ [](WrapperDone /\ threads.worker.state = "running" /\ threads.worker.func = "returns" => ENABLED RunReturns)

(* C30: the call gives the default only where the worker was still running when the
   call returned, and does not give None as the result of a func that raised. *)
C30_TimedOutOnlyIfRunning ==
    WrapperDone =>
        /\ threads.wrapper.val = "timeout_ret_val" => threads.wrapper.seen = "running"
        /\ threads.wrapper.seen = "raised" => threads.wrapper.val # "None"
=============================================================================
